---- MODULE Spec2Model ----
(***************************************************************************)
(* Client-side data/state-synchronisation layer of "Talk to My Docs":      *)
(* the chat send flow with its optimistic cache update, the two-phase      *)
(* file ingestion flow, the model catalog and persisted application state, *)
(* the OAuth callback view and the connected-source derivation.            *)
(*                                                                         *)
(* Each flow has its own specification over the shared variables:          *)
(*   Spec        chat interaction flow (frontend api/chat hooks, Chat)     *)
(*   SpecUpload  file ingestion flow (uploadFiles, uploadGoogleFile, ...)  *)
(*   SpecApp     application state reducer, storage and model catalog      *)
(*   SpecOAuth   OAuthCallback and SettingsSources views                   *)
(*   SpecSources useConnectedSources                                       *)
(* A flow that a specification does not exercise stays in its initial      *)
(* state there.                                                            *)
(***************************************************************************)
EXTENDS Integers, Sequences, FiniteSets, TLC

VARIABLES
    cache,                  \* query cache: message-list key -> None | Some(list)
    sends,                  \* the chat-send mutations, by slot
    location,               \* chat router location: <<"/chat">> or <<"/chat", id>>
    hasPendingMessageRequest, \* Chat's ref
    isPendingMessage,       \* the prop Chat gave its prompt input at its last render
    chatMount,              \* the Chat instance on screen (instances are numbered)
    selectedLlmModel,       \* AppStateData
    selectedKnowledgeBase,
    availableLlmModels,
    storage,                \* browser storage: key -> None | Some(json text)
    catalogQuery,           \* cached result of getLlmCatalog: None | Some(list)
    upload,                 \* the upload operation in progress
    oauth,                  \* the OAuth callback / settings-sources views
    currentUser,            \* useCurrentUser data
    connected,              \* what useConnectedSources returned at the last render
    queries,                \* query cache: hashed key -> None | Some(data), all but messages
    invalidated,            \* the hashed keys of the queries marked stale
    dialog,                 \* ConnectedSourcesDialog's state
    mutation,               \* the knowledge-base or chat-delete write in progress
    reads                   \* the fetches of the queries: hashed key -> observer and request

chatVars == <<cache, sends, location, hasPendingMessageRequest, isPendingMessage, chatMount>>
appVars == <<selectedLlmModel, selectedKnowledgeBase, availableLlmModels, storage, catalogQuery>>
uploadVars == <<upload>>
oauthVars == <<oauth>>
sourceVars == <<currentUser, connected>>
queryVars == <<queries, invalidated, dialog, mutation, reads>>
vars == <<cache, sends, location, hasPendingMessageRequest, isPendingMessage,
          chatMount, selectedLlmModel,
          selectedKnowledgeBase, availableLlmModels, storage, catalogQuery,
          upload, oauth, currentUser, connected, queries, invalidated, dialog,
          mutation, reads>>

---------------------------------------------------------------------------
(* JavaScript values.  An optional value is None or Some(x); undefined and  *)
(* null string-valued fields are the two sentinels below.                   *)

None == <<>>
Some(x) == <<x>>
IsSome(o) == Len(o) = 1
Get(o) == o[1]
Undefined == "<undefined>"
Null == "<null>"

\* `x || undefined` and `!!x` on a string-or-undefined value
Truthy(x) == x # Undefined /\ x # Null /\ x # ""
OrUndefined(x) == IF Truthy(x) THEN x ELSE Undefined

RECURSIVE SeqsUpTo(_, _)
SeqsUpTo(S, n) ==
    IF n = 0 THEN {<<>>}
    ELSE LET shorter == SeqsUpTo(S, n - 1)
         IN shorter \cup {Append(q, x) : q \in {r \in shorter : Len(r) = n - 1}, x \in S}

---------------------------------------------------------------------------
(* Bounds of the model *)

MaxSends == 2          \* chat sends issued in one behaviour
MaxFiles == 2          \* file records returned by phase one of an upload
MaxCatalog == 2        \* entries in one catalog response
MaxIdentities == 2     \* identity records of the current user
MaxMounts == 2         \* Chat instances mounted in one behaviour

---------------------------------------------------------------------------
(* Model catalog constants (api/chat/constants.ts) and the knowledge bases  *)
(* the user can pick from.  A knowledge base is abbreviated to the fields   *)
(* the client reads (uuid, title).                                          *)

AGENT_MODEL == "ttmdocs-agents"

AGENT_MODEL_LLM ==
    [name |-> "Intelligent Agent Crew", model |-> AGENT_MODEL, llmId |-> AGENT_MODEL,
     isActive |-> TRUE, isDeprecated |-> FALSE]

GEMINI_LLM ==
    [name |-> "Google Gemini 1.5 Flash", model |-> "vertex_ai/gemini-1.5-flash-002",
     llmId |-> "google-gemini-1.5-pro", isActive |-> TRUE, isDeprecated |-> FALSE]

\* a catalog entry the server marks deprecated (filtered out by getLlmCatalog)
RETIRED_LLM ==
    [name |-> "Retired", model |-> "azure/retired", llmId |-> "azure-retired",
     isActive |-> TRUE, isDeprecated |-> TRUE]

DEFAULT_LLM_CATALOG == <<AGENT_MODEL_LLM, GEMINI_LLM>>

\* what the catalog endpoint may answer: the mocked server answers
\* DEFAULT_LLM_CATALOG, which holds the agent entry itself
ServerModels == {AGENT_MODEL_LLM, GEMINI_LLM, RETIRED_LLM}
CatalogResponses == SeqsUpTo(ServerModels, MaxCatalog)

KnowledgeBases == {[uuid |-> "kb1", title |-> "Docs"]}

STORAGE_KEYS ==
    [SELECTED_LLM_MODEL |-> "SELECTED_LLM_MODEL",
     SELECTED_KNOWLEDGE_BASE |-> "SELECTED_KNOWLEDGE_BASE"]
StorageKeySet == {STORAGE_KEYS.SELECTED_LLM_MODEL, STORAGE_KEYS.SELECTED_KNOWLEDGE_BASE}

ACTION_TYPES ==
    [SET_SELECTED_LLM_MODEL |-> "SET_SELECTED_LLM_MODEL",
     SET_AVAILABLE_LLM_MODELS |-> "SET_AVAILABLE_LLM_MODELS",
     SET_SELECTED_KNOWLEDGE_BASE |-> "SET_SELECTED_KNOWLEDGE_BASE"]

\* null is None, an object is Some(record)
DEFAULT_VALUES ==
    [selectedLlmModel |-> Some(DEFAULT_LLM_CATALOG[1]),
     selectedKnowledgeBase |-> None,
     availableLlmModels |-> None]

---------------------------------------------------------------------------
(* JSON text, as the sequence of its tokens.  JSONstringify writes null as  *)
(* the token null and an object as its braces around key/value tokens in    *)
(* property order; JSONparse reads that text back.                          *)

BoolText(b) == IF b THEN "true" ELSE "false"

JSONstringify(v) ==
    IF ~IsSome(v) THEN <<"null">>
    ELSE LET r == Get(v)
         IN IF "llmId" \in DOMAIN r
            THEN <<"{", "name", r.name, "model", r.model, "llmId", r.llmId,
                   "isActive", BoolText(r.isActive),
                   "isDeprecated", BoolText(r.isDeprecated), "}">>
            ELSE <<"{", "uuid", r.uuid, "title", r.title, "}">>

JSONparse(t) ==
    IF t = <<"null">> THEN None
    ELSE IF t[2] = "name"
         THEN Some([name |-> t[3], model |-> t[5], llmId |-> t[7],
                    isActive |-> (t[9] = "true"), isDeprecated |-> (t[11] = "true")])
         ELSE Some([uuid |-> t[3], title |-> t[5]])

\* state/storage.ts: thin wrappers of browser storage (getItem / setItem)
getStorageItem(stor, key) == stor[key]
setStorageItem(stor, key, text) == [stor EXCEPT ![key] = Some(text)]

\* a storage item is truthy when it is a non-empty string
StorageTruthy(item) == IsSome(item) /\ Get(item) # <<>>

\* the initial state with the knowledge base never read back from storage
createInitialState_kbForgotten(stor) ==
    [selectedLlmModel |->
        IF StorageTruthy(getStorageItem(stor, STORAGE_KEYS.SELECTED_LLM_MODEL))
        THEN JSONparse(Get(getStorageItem(stor, STORAGE_KEYS.SELECTED_LLM_MODEL)))
        ELSE DEFAULT_VALUES.selectedLlmModel,
     selectedKnowledgeBase |-> DEFAULT_VALUES.selectedKnowledgeBase,
     availableLlmModels |-> None]

createInitialState(stor) ==
    [selectedLlmModel |->
        IF StorageTruthy(getStorageItem(stor, STORAGE_KEYS.SELECTED_LLM_MODEL))
        THEN JSONparse(Get(getStorageItem(stor, STORAGE_KEYS.SELECTED_LLM_MODEL)))
        ELSE DEFAULT_VALUES.selectedLlmModel,
     selectedKnowledgeBase |->
        IF StorageTruthy(getStorageItem(stor, STORAGE_KEYS.SELECTED_KNOWLEDGE_BASE))
        THEN JSONparse(Get(getStorageItem(stor, STORAGE_KEYS.SELECTED_KNOWLEDGE_BASE)))
        ELSE DEFAULT_VALUES.selectedKnowledgeBase,
     availableLlmModels |-> None]

\* the reducer without the storage write of the knowledge-base selection
reducer_kbNotStored(ctx, action) ==
    CASE action.type = ACTION_TYPES.SET_SELECTED_LLM_MODEL ->
            [state |-> [ctx.state EXCEPT !.selectedLlmModel = action.payload],
             storage |-> setStorageItem(ctx.storage, STORAGE_KEYS.SELECTED_LLM_MODEL,
                                        JSONstringify(action.payload))]
      [] action.type = ACTION_TYPES.SET_AVAILABLE_LLM_MODELS ->
            [state |-> [ctx.state EXCEPT !.availableLlmModels = action.payload],
             storage |-> ctx.storage]
      [] action.type = ACTION_TYPES.SET_SELECTED_KNOWLEDGE_BASE ->
            [state |-> [ctx.state EXCEPT !.selectedKnowledgeBase = action.payload],
             storage |-> ctx.storage]
      [] OTHER -> ctx

\* the reducer persisting a model selection without taking it into the state
reducer_modelNotSet(ctx, action) ==
    CASE action.type = ACTION_TYPES.SET_SELECTED_LLM_MODEL ->
            [state |-> ctx.state,
             storage |-> setStorageItem(ctx.storage, STORAGE_KEYS.SELECTED_LLM_MODEL,
                                        JSONstringify(action.payload))]
      [] action.type = ACTION_TYPES.SET_AVAILABLE_LLM_MODELS ->
            [state |-> [ctx.state EXCEPT !.availableLlmModels = action.payload],
             storage |-> ctx.storage]
      [] action.type = ACTION_TYPES.SET_SELECTED_KNOWLEDGE_BASE ->
            [state |-> [ctx.state EXCEPT !.selectedKnowledgeBase = action.payload],
             storage |-> setStorageItem(ctx.storage, STORAGE_KEYS.SELECTED_KNOWLEDGE_BASE,
                                        JSONstringify(action.payload))]
      [] OTHER -> ctx

\* The reducer, with the storage it writes: ctx is [state, storage].
reducer(ctx, action) ==
    CASE action.type = ACTION_TYPES.SET_SELECTED_LLM_MODEL ->
            [state |-> [ctx.state EXCEPT !.selectedLlmModel = action.payload],
             storage |-> setStorageItem(ctx.storage, STORAGE_KEYS.SELECTED_LLM_MODEL,
                                        JSONstringify(action.payload))]
      [] action.type = ACTION_TYPES.SET_AVAILABLE_LLM_MODELS ->
            [state |-> [ctx.state EXCEPT !.availableLlmModels = action.payload],
             storage |-> ctx.storage]
      [] action.type = ACTION_TYPES.SET_SELECTED_KNOWLEDGE_BASE ->
            [state |-> [ctx.state EXCEPT !.selectedKnowledgeBase = action.payload],
             storage |-> setStorageItem(ctx.storage, STORAGE_KEYS.SELECTED_KNOWLEDGE_BASE,
                                        JSONstringify(action.payload))]
      [] OTHER -> ctx

actions_setSelectedLlmModel(model) ==
    [type |-> ACTION_TYPES.SET_SELECTED_LLM_MODEL, payload |-> model]
actions_setAvailableLlmModels(models) ==
    [type |-> ACTION_TYPES.SET_AVAILABLE_LLM_MODELS, payload |-> models]
actions_setSelectedKnowledgeBase(base) ==
    [type |-> ACTION_TYPES.SET_SELECTED_KNOWLEDGE_BASE, payload |-> base]

AppCtx ==
    [state |-> [selectedLlmModel |-> selectedLlmModel,
                selectedKnowledgeBase |-> selectedKnowledgeBase,
                availableLlmModels |-> availableLlmModels],
     storage |-> storage]

\* the provider's state and the storage become those of ctx
Commit(ctx) ==
    /\ selectedLlmModel' = ctx.state.selectedLlmModel
    /\ selectedKnowledgeBase' = ctx.state.selectedKnowledgeBase
    /\ availableLlmModels' = ctx.state.availableLlmModels
    /\ storage' = ctx.storage

\* getLlmCatalog: the response filtered to the active, non-deprecated entries
getLlmCatalog(response) ==
    SelectSeq(response, LAMBDA model : model.isActive = TRUE /\ model.isDeprecated = FALSE)

\* useLlmCatalog's select
useLlmCatalog_select(data) == <<AGENT_MODEL_LLM>> \o data

\* App's effect, run when the catalog query has data
App_effect(ctx, availableLlmCatalog) ==
    IF Len(availableLlmCatalog) # 0 /\ ~IsSome(ctx.state.availableLlmModels)
    THEN LET c1 == reducer(ctx, actions_setAvailableLlmModels(Some(availableLlmCatalog)))
         IN IF ~IsSome(ctx.state.selectedLlmModel)
            THEN reducer(c1, actions_setSelectedLlmModel(Some(availableLlmCatalog[1])))
            ELSE c1
    ELSE ctx

\* the catalog request resolves with `response`; App re-renders and its effect runs
CatalogFetched(response) ==
    /\ catalogQuery' = Some(getLlmCatalog(response))
    /\ Commit(App_effect(AppCtx, useLlmCatalog_select(getLlmCatalog(response))))

\* the two places that display the selected model: the header's dropdown
\* trigger and the chat page's model name (both print selectedLlmModel.name;
\* reading .name of null throws, shown here as Undefined)
AppHeader_trigger(selected) == IF IsSome(selected) THEN Get(selected).name ELSE Undefined
Chat_modelName(selected) == IF IsSome(selected) THEN Get(selected).name ELSE Undefined

\* AppHeader: the catalog it lists (search box empty) and a pick from it
AppHeader_items == IF IsSome(availableLlmModels) THEN Get(availableLlmModels) ELSE <<>>

SelectModel(i) ==
    /\ IsSome(catalogQuery)
    /\ i \in 1..Len(AppHeader_items)
    /\ Commit(reducer(AppCtx, actions_setSelectedLlmModel(Some(AppHeader_items[i]))))
    /\ UNCHANGED catalogQuery

\* ChatPromptInput: pick a knowledge base, or clear the selection
SelectKnowledgeBase(base) ==
    /\ IsSome(catalogQuery)
    /\ Commit(reducer(AppCtx, actions_setSelectedKnowledgeBase(base)))
    /\ UNCHANGED catalogQuery

---------------------------------------------------------------------------
(* Chat interaction flow: api/chat (keys, requests, hooks), pages/Chat and  *)
(* components/custom/chat-prompt-input.                                     *)

ChatIds == {"123"}
ChatIdOpt == ChatIds \cup {Undefined}
\* the text typed for the s-th send of a behaviour
Text(s) == IF s = 1 THEN "Hello" ELSE "More " \o ToString(s)
\* ChatPromptInput's context of a send: undefined, or the ids of the attached files
FileIdLists == {None, Some(<<>>), Some(<<"f1">>), Some(<<"f1", "f2">>)}
\* context.pages of a send: absent, empty, or the text of a document's pages
PagesContexts == {None, Some(<<>>), Some(<<"page 1 of doc1">>)}

llmAPIUrl == "/v1/chat/completions"
agentChatUrl == "/v1/chat/agent/completions"

\* api/chat/keys.ts: the message list of a chat is cached under the chat id
chatKeys_messages(chatId) == <<"chats", "messages", chatId>>
MessageKeys == {chatKeys_messages(c) : c \in ChatIdOpt}

PATHS_CHAT == <<"/chat">>
ChatPath(chatId) == <<"/chat", chatId>>                \* `/chat/${chatId}`
useParams_chatId(loc) == IF Len(loc) = 2 THEN loc[2] ELSE Undefined

UserMessage(message, model) ==
    [role |-> "user", content |-> message, model |-> model,
     chat_id |-> Undefined, uuid |-> Undefined]

\* what the server answers when the messages of a chat are fetched
ServerMessages(chatId) ==
    {<<[role |-> "user", content |-> "Earlier", model |-> AGENT_MODEL,
        chat_id |-> chatId, uuid |-> "m1"],
      [role |-> "assistant", content |-> "Earlier reply", model |-> AGENT_MODEL,
       chat_id |-> chatId, uuid |-> "m2"]>>}

\* the completion endpoints' answer to send s (contents as the mocked server's)
ResponseMessage(s, url, chatId) ==
    [role |-> "assistant",
     content |-> IF url = agentChatUrl THEN "Agents Say Hello World!" ELSE "Hello World!",
     model |-> Undefined, chat_id |-> chatId, uuid |-> ToString(s)]

\* queryClient.getQueryData / setQueryData
getQueryData(c, key) == c[key]
setQueryData(c, key, data) == [c EXCEPT ![key] = Some(data)]
\* `data || []` and the updater's default parameter `(oldData = [])`
OrEmpty(o) == IF IsSome(o) THEN Get(o) ELSE <<>>

\* postMessage with the two endpoints the wrong way round
postMessage_swapped(params) ==
    [url |-> IF params.model # AGENT_MODEL THEN agentChatUrl ELSE llmAPIUrl,
     payload |->
        [message |-> params.message,
         model |-> params.model,
         chat_id |-> params.chatId,
         knowledge_base_id |-> IF Truthy(params.knowledgeBaseId)
                               THEN params.knowledgeBaseId ELSE Undefined,
         knowledge_base |-> IF Truthy(params.knowledgeBaseId)
                            THEN None ELSE params.knowledgeBase,
         file_ids |-> IF IsSome(params.fileIds) /\ Len(Get(params.fileIds)) > 0
                      THEN params.fileIds ELSE None]]

\* postMessage: the endpoint and the payload of the request it issues
postMessage(params) ==
    [url |-> IF params.model = AGENT_MODEL THEN agentChatUrl ELSE llmAPIUrl,
     payload |->
        [message |-> params.message,
         model |-> params.model,
         chat_id |-> params.chatId,
         knowledge_base_id |-> IF Truthy(params.knowledgeBaseId)
                               THEN params.knowledgeBaseId ELSE Undefined,
         knowledge_base |-> IF Truthy(params.knowledgeBaseId)
                            THEN None ELSE params.knowledgeBase,
         file_ids |-> IF IsSome(params.fileIds) /\ Len(Get(params.fileIds)) > 0
                      THEN params.fileIds ELSE None]]

\* the mutation function handing the legacy pages on when there are no file ids
usePostMessage_mutationFn_legacyPages(variables, model, chatId) ==
    IF IsSome(variables.fileIds) /\ Len(Get(variables.fileIds)) > 0
    THEN postMessage([message |-> variables.message, model |-> model,
                      chatId |-> OrUndefined(chatId),
                      knowledgeBase |-> variables.knowledgeBase,
                      knowledgeBaseId |-> OrUndefined(variables.knowledgeBaseId),
                      fileIds |-> variables.fileIds])
    ELSE postMessage([message |-> variables.message, model |-> model,
                      chatId |-> OrUndefined(chatId),
                      knowledgeBase |-> variables.knowledgeBase,
                      knowledgeBaseId |-> OrUndefined(variables.knowledgeBaseId),
                      fileIds |-> variables.pages])

\* usePostMessage's mutationFn: both branches of it.  The fallback branch
\* reads context.pages only to log a warning; postMessage gets no pages
usePostMessage_mutationFn(variables, model, chatId) ==
    IF IsSome(variables.fileIds) /\ Len(Get(variables.fileIds)) > 0
    THEN postMessage([message |-> variables.message, model |-> model,
                      chatId |-> OrUndefined(chatId),
                      knowledgeBase |-> variables.knowledgeBase,
                      knowledgeBaseId |-> OrUndefined(variables.knowledgeBaseId),
                      fileIds |-> variables.fileIds])
    ELSE postMessage([message |-> variables.message, model |-> model,
                      chatId |-> OrUndefined(chatId),
                      knowledgeBase |-> variables.knowledgeBase,
                      knowledgeBaseId |-> OrUndefined(variables.knowledgeBaseId),
                      fileIds |-> None])

\* onMutate putting the new message in front of the list
usePostMessage_onMutate_prepend(c, chatId, model, data) ==
    LET messagesKey == chatKeys_messages(chatId)
        previousMessages == OrEmpty(getQueryData(c, messagesKey))
        newUserMessage == UserMessage(data.message, model)
    IN [cache |-> setQueryData(c, messagesKey, <<newUserMessage>> \o previousMessages),
        context |-> [previousMessages |-> previousMessages, messagesKey |-> messagesKey]]

\* usePostMessage's onMutate: the cache it leaves and the context it returns
usePostMessage_onMutate(c, chatId, model, data) ==
    LET messagesKey == chatKeys_messages(chatId)
        previousMessages == OrEmpty(getQueryData(c, messagesKey))
        newUserMessage == UserMessage(data.message, model)
    IN [cache |-> setQueryData(c, messagesKey, Append(previousMessages, newUserMessage)),
        context |-> [previousMessages |-> previousMessages, messagesKey |-> messagesKey]]

\* onError taking an empty snapshot for a missing one
usePostMessage_onError_emptyIsFalsy(c, context) ==
    IF context.previousMessages # <<>>
    THEN setQueryData(c, context.messagesKey, context.previousMessages)
    ELSE c

\* usePostMessage's onError (an array, even an empty one, is truthy)
usePostMessage_onError(c, context) ==
    setQueryData(c, context.messagesKey, context.previousMessages)

\* onSuccess replacing the cached list by the reply alone
usePostMessage_onSuccess_replace(c, data) ==
    [cache |-> setQueryData(c, chatKeys_messages(data.chat_id), <<data>>),
     location |-> ChatPath(data.chat_id)]

\* usePostMessage's onSuccess: the cache it leaves and where it navigates
usePostMessage_onSuccess(c, data) ==
    [cache |-> setQueryData(c, chatKeys_messages(data.chat_id),
                            Append(OrEmpty(getQueryData(c, chatKeys_messages(data.chat_id))),
                                   data)),
     location |-> ChatPath(data.chat_id)]

\* Chat: the messages it renders at a location
Chat_messages(c, loc) == OrEmpty(getQueryData(c, chatKeys_messages(useParams_chatId(loc))))

IdleSend ==
    [status |-> "idle", chatId |-> Undefined, model |-> Undefined,
     variables |-> [message |-> "", fileIds |-> None, pages |-> None,
                    knowledgeBase |-> None,
                    knowledgeBaseId |-> Undefined],
     context |-> [previousMessages |-> <<>>, messagesKey |-> chatKeys_messages(Undefined)],
     request |-> [url |-> Undefined],
     response |-> None,
     before |-> None,
     input |-> 0, handler |-> "idle"]

SendSlots == 1..MaxSends

\* the views under App are rendered once the catalog query is no longer loading
PagesRendered == IsSome(catalogQuery)

\* Chat hands its prompt input no pending flag at all
Chat_isPendingMessage_never(ref) == FALSE

\* Chat: the isPendingMessage prop it hands its prompt input at a render is
\* the value its ref holds at that render
Chat_isPendingMessage(ref) == ref

\* Chat renders again when what it reads has changed: its route parameter,
\* the message list of the chat on screen, the application state.  Writing
\* the ref schedules no render.
Chat_changed ==
    \/ useParams_chatId(location') # useParams_chatId(location)
    \/ Chat_messages(cache', location') # Chat_messages(cache, location)
    \/ <<selectedLlmModel, selectedKnowledgeBase, availableLlmModels>>'
            # <<selectedLlmModel, selectedKnowledgeBase, availableLlmModels>>

\* the prop the prompt input holds after a step: a render that follows the
\* step reads the ref as the step left it
ChatRenders ==
    isPendingMessage' = IF Chat_changed
                        THEN Chat_isPendingMessage(hasPendingMessageRequest')
                        ELSE isPendingMessage

\* ChatPromptInput.handleSubmit: how the promise it returns settles.  The
\* await of mutateAsync sits in try/finally with no catch, and the callers
\* (handleEnterPress, the button's onClick) attach no handler to the promise.
handleSubmit_settles(failed) == IF failed THEN "rejected" ELSE "fulfilled"

\* ChatList: a click on a chat's link, or on the new-chat entry
Navigate(chatId) ==
    /\ PagesRendered
    /\ location' = IF chatId = Undefined THEN PATHS_CHAT ELSE ChatPath(chatId)
    /\ UNCHANGED <<cache, sends, hasPendingMessageRequest, chatMount>>
    /\ UNCHANGED <<appVars, uploadVars, oauthVars, sourceVars, queryVars>>
    /\ ChatRenders

\* useChatMessages: the query of the chat on screen resolves with the server's list
FetchMessages(list) ==
    /\ PagesRendered
    /\ Truthy(useParams_chatId(location))
    /\ list \in ServerMessages(useParams_chatId(location))
    /\ cache' = setQueryData(cache, chatKeys_messages(useParams_chatId(location)), list)
    /\ UNCHANGED <<sends, location, hasPendingMessageRequest, chatMount>>
    /\ UNCHANGED <<appVars, uploadVars, oauthVars, sourceVars, queryVars>>
    /\ ChatRenders

\* the user leaves the chat page for another page and comes back: a new Chat
\* instance is mounted, with a ref of its own that starts false.  Requests
\* issued from the earlier instance stay in flight.
ChatRemounts ==
    /\ PagesRendered
    /\ chatMount < MaxMounts
    /\ chatMount' = chatMount + 1
    /\ hasPendingMessageRequest' = FALSE
    /\ isPendingMessage' = Chat_isPendingMessage(FALSE)
    /\ UNCHANGED <<cache, sends, location>>
    /\ UNCHANGED <<appVars, uploadVars, oauthVars, sourceVars, queryVars>>

\* ChatPromptInput.handleSubmit up to the request: setPendingMessage(true),
\* mutateAsync -> onMutate, then mutationFn issues the request.  `before` keeps
\* what the cache held under the key when the send was invoked.  The textarea
\* and the send button are disabled while the isPendingMessage prop is true.
SubmitContext(s, fileIds, pages) ==
    /\ PagesRendered
    /\ ~isPendingMessage
    /\ sends[s].status = "idle"
    /\ \A t \in SendSlots : t < s => sends[t].status # "idle"
    /\ Text(s) # ""
    /\ IsSome(selectedLlmModel)
    /\ LET chatId == useParams_chatId(location)
           message == Text(s)
           model == Get(selectedLlmModel).model
           variables == [message |-> message, fileIds |-> fileIds, pages |-> pages,
                         knowledgeBase |-> None,
                         knowledgeBaseId |-> IF IsSome(selectedKnowledgeBase)
                                             THEN Get(selectedKnowledgeBase).uuid
                                             ELSE Undefined]
           mutated == usePostMessage_onMutate(cache, chatId, model, variables)
       IN /\ cache' = mutated.cache
          /\ sends' = [sends EXCEPT ![s] =
                [status |-> "pending", chatId |-> chatId, model |-> model,
                 variables |-> variables,
                 context |-> mutated.context,
                 request |-> usePostMessage_mutationFn(variables, model, chatId),
                 response |-> None,
                 before |-> getQueryData(cache, chatKeys_messages(chatId)),
                 input |-> chatMount, handler |-> "pending"]]
    /\ hasPendingMessageRequest' = TRUE
    /\ UNCHANGED <<location, chatMount>>
    /\ UNCHANGED <<appVars, uploadVars, oauthVars, sourceVars, queryVars>>
    /\ ChatRenders

\* handleSubmit: the context it builds holds file ids and never pages
Submit(s, fileIds) == SubmitContext(s, fileIds, None)

\* handleSubmit's finally block: setPendingMessage(false) writes the ref of
\* the Chat instance the send was issued from
handleSubmit_finally(s) ==
    IF sends[s].input = chatMount THEN FALSE ELSE hasPendingMessageRequest

\* the request of send s succeeds: onSuccess, then handleSubmit's finally block.
\* The server answers under the chat id of the request, or a chat it creates.
SendSucceeds(s, newChatId) ==
    /\ sends[s].status = "pending"
    /\ newChatId \in ChatIds
    /\ LET chatId == IF sends[s].request.payload.chat_id = Undefined
                     THEN newChatId ELSE sends[s].request.payload.chat_id
           data == ResponseMessage(s, sends[s].request.url, chatId)
           done == usePostMessage_onSuccess(cache, data)
       IN /\ cache' = done.cache
          /\ location' = done.location
          /\ sends' = [sends EXCEPT ![s].status = "success", ![s].response = Some(data),
                                    ![s].handler = handleSubmit_settles(FALSE)]
    /\ hasPendingMessageRequest' = handleSubmit_finally(s)
    /\ UNCHANGED chatMount
    /\ UNCHANGED <<appVars, uploadVars, oauthVars, sourceVars, queryVars>>
    /\ ChatRenders

\* the request of send s fails: onError, then handleSubmit's finally block
SendFails(s) ==
    /\ sends[s].status = "pending"
    /\ cache' = usePostMessage_onError(cache, sends[s].context)
    /\ sends' = [sends EXCEPT ![s].status = "error",
                              ![s].handler = handleSubmit_settles(TRUE)]
    /\ hasPendingMessageRequest' = handleSubmit_finally(s)
    /\ UNCHANGED <<location, chatMount>>
    /\ UNCHANGED <<appVars, uploadVars, oauthVars, sourceVars, queryVars>>
    /\ ChatRenders

---------------------------------------------------------------------------
(* Query keys and the query client.  The client files a query under the     *)
(* hash of its key: the JSON text of the key, in which undefined is written *)
(* null and a string in quotes.  invalidateQueries marks every cached query *)
(* whose key starts with the given key.                                     *)

\* api/chat/keys.ts: the chat list
chatKeys_chatList == <<"chats", "list">>

knowledgeBasesKeys_all == <<"allKnowledgeBases">>
knowledgeBasesKeys_byId(id) == <<"allKnowledgeBases", id>>
knowledgeBasesKeys_files(knowledgeBaseUuid) == <<"allKnowledgeBases", knowledgeBaseUuid, "files">>
knowledgeBasesKeys_allFiles == <<"allFiles">>

externalFilesKeys_all == <<"external-files">>
externalFilesKeys_google == externalFilesKeys_all \o <<"google">>
\* the folder listings of Google Drive all filed under one key
externalFilesKeys_googleFolder_shared(folderId) == externalFilesKeys_google
externalFilesKeys_googleFolder(folderId) == externalFilesKeys_google \o <<folderId>>
externalFilesKeys_box == externalFilesKeys_all \o <<"box">>
externalFilesKeys_boxFolder(folderId) == externalFilesKeys_box \o <<folderId>>

\* the knowledge bases and the provider folders there are
BaseUuids == {"kb1", "kb2"}
FolderIds == {"0", "A", "null"}
GoogleFolderIds == FolderIds \cup {Undefined}

hashKey(queryKey) ==
    [i \in 1..Len(queryKey) |->
        IF queryKey[i] = Undefined THEN "null" ELSE "\"" \o queryKey[i] \o "\""]

\* partialMatchKey, on hashes: the query's key starts with the filter's key
partialMatchKey(queryHash, filterHash) ==
    /\ Len(filterHash) <= Len(queryHash)
    /\ SubSeq(queryHash, 1, Len(filterHash)) = filterHash

\* the keys `queries` has a slot for
QueryKeys ==
    {chatKeys_chatList, knowledgeBasesKeys_all, knowledgeBasesKeys_allFiles}
        \cup {knowledgeBasesKeys_byId(id) : id \in BaseUuids}
        \cup {knowledgeBasesKeys_files(id) : id \in BaseUuids}
        \cup {externalFilesKeys_google \o <<f>> : f \in GoogleFolderIds}
        \cup {externalFilesKeys_google}
        \cup {externalFilesKeys_box \o <<f>> : f \in FolderIds}
QueryHashes == {hashKey(k) : k \in QueryKeys}

\* the hashes of the queries that are in the cache
CachedQueries(qs, c) ==
    {h \in DOMAIN qs : IsSome(qs[h])}
        \cup {hashKey(k) : k \in {m \in DOMAIN c : IsSome(c[m])}}

\* queryClient.invalidateQueries({ queryKey }): the marks after it
invalidateQueries(marks, cached, queryKey) ==
    marks \cup {h \in cached : partialMatchKey(h, hashKey(queryKey))}

\* queryClient.setQueryData on `queries`: the data is written, the mark cleared
setData(qs, queryKey, data) == [qs EXCEPT ![hashKey(queryKey)] = Some(data)]
clearMark(marks, queryKey) == marks \ {hashKey(queryKey)}

\* useFileUploadMutation: onSuccess or onError, then onSettled
useFileUploadMutation_callbacks(marks, cached, succeeded) ==
    LET afterOnSuccess == IF succeeded
                          THEN invalidateQueries(marks, cached, knowledgeBasesKeys_all)
                          ELSE marks
    IN invalidateQueries(afterOnSuccess, cached, knowledgeBasesKeys_all)

\* useExternalFileUploadMutation: onSuccess or onError
useExternalFileUploadMutation_callbacks(marks, cached, succeeded) ==
    IF succeeded THEN invalidateQueries(marks, cached, knowledgeBasesKeys_all)
    ELSE marks

\* ConnectedSourcesDialog's state at its first render, with the props
\* ChatPromptInput hands it (open, isUploading), the uploads mutateExternalFile
\* was called for, and the entry the last click was on (clicks counts them)
InitDialog ==
    [selectedGoogleFolder |-> Undefined, selectedBoxFolder |-> "0",
     googleSearchQuery |-> "", boxSearchQuery |-> "",
     open |-> FALSE, isUploading |-> FALSE, uploads |-> <<>>,
     clicks |-> 0,
     selected |-> [file |-> [id |-> Undefined, type |-> "none"], source |-> "none"]]

IdleMutation ==
    [kind |-> "none", pc |-> "idle", id |-> Undefined, title |-> Undefined,
     handler |-> "idle"]

\* a query nobody observes and no request is made for
IdleRead == [observed |-> FALSE, pc |-> "idle", signal |-> FALSE, left |-> FALSE]

InitQueries ==
    /\ queries = [h \in QueryHashes |-> None]
    /\ invalidated = {}
    /\ dialog = InitDialog
    /\ mutation = IdleMutation
    /\ reads = [h \in QueryHashes |-> IdleRead]

IdleUpload ==
    [pc |-> "idle", source |-> "local", knowledgeBaseUuid |-> Undefined,
     uploadedFiles |-> <<>>, filesWithContent |-> <<>>, fetches |-> <<>>]
\* nobody is on the callback route: the sources settings view is showing
IdleOAuth ==
    [pc |-> "idle", connectingId |-> Null, provider |-> Null, visited |-> <<>>,
     href |-> [pathname |-> <<"/settings/sources">>, search |-> <<>>],
     request |-> None, status |-> "idle", oauthError |-> None]

InitChat ==
    /\ cache = [k \in MessageKeys |-> None]
    /\ sends = [s \in SendSlots |-> IdleSend]
    /\ location = PATHS_CHAT
    /\ hasPendingMessageRequest = FALSE
    /\ isPendingMessage = FALSE
    /\ chatMount = 1

InitApp ==
    /\ storage = [k \in StorageKeySet |-> None]
    /\ selectedLlmModel = createInitialState(storage).selectedLlmModel
    /\ selectedKnowledgeBase = createInitialState(storage).selectedKnowledgeBase
    /\ availableLlmModels = createInitialState(storage).availableLlmModels
    /\ catalogQuery = None

Init ==
    /\ InitChat
    /\ InitApp
    /\ upload = IdleUpload
    /\ oauth = IdleOAuth
    /\ currentUser = None
    /\ connected = <<>>
    /\ InitQueries

\* the application state as the chat flow sees it: the catalog is the mocked
\* server's, a model is picked in the header, a knowledge base in the prompt input
ChatCatalogFetched ==
    /\ CatalogFetched(DEFAULT_LLM_CATALOG)
    /\ UNCHANGED <<cache, sends, location, hasPendingMessageRequest, chatMount>>
    /\ UNCHANGED <<uploadVars, oauthVars, sourceVars, queryVars>>
    /\ ChatRenders

HeaderSelectModel ==
    /\ \E i \in 1..(MaxCatalog + 1) : SelectModel(i)
    /\ UNCHANGED <<cache, sends, location, hasPendingMessageRequest, chatMount>>
    /\ UNCHANGED <<uploadVars, oauthVars, sourceVars, queryVars>>
    /\ ChatRenders

PromptSelectKnowledgeBase ==
    /\ \E base \in {None} \cup {Some(b) : b \in KnowledgeBases} : SelectKnowledgeBase(base)
    /\ UNCHANGED <<cache, sends, location, hasPendingMessageRequest, chatMount>>
    /\ UNCHANGED <<uploadVars, oauthVars, sourceVars, queryVars>>
    /\ ChatRenders

Next ==
    \/ ChatCatalogFetched
    \/ HeaderSelectModel
    \/ \E c \in ChatIdOpt : Navigate(c)
    \/ ChatRemounts
    \/ \E c \in ChatIds : \E list \in ServerMessages(c) : FetchMessages(list)
    \/ \E s \in SendSlots : Submit(s, None)
    \/ \E s \in SendSlots, c \in ChatIds : SendSucceeds(s, c)
    \/ \E s \in SendSlots : SendFails(s)

Spec == Init /\ [][Next]_vars

(* A single prompt input sending with attachments and a knowledge base:     *)
(* the request a send issues, over every input of the mutation.             *)
RequestSubmit ==
    \E f \in FileIdLists, p \in PagesContexts : SubmitContext(1, f, p)

RequestSettles ==
    \/ \E c \in ChatIds : SendSucceeds(1, c)
    \/ SendFails(1)

NextRequest ==
    \/ ChatCatalogFetched
    \/ HeaderSelectModel
    \/ PromptSelectKnowledgeBase
    \/ \E c \in ChatIdOpt : Navigate(c)
    \/ RequestSubmit
    \/ RequestSettles

SpecRequest == Init /\ [][NextRequest]_vars

---------------------------------------------------------------------------
(* Claims on the chat interaction flow *)

SendKey(s) == chatKeys_messages(sends[s].chatId)

\* C1: when the request of a send fails, the message list cached for the
\* send's chat key after the failure handler equals, entry for entry and in
\* order, the list cached for that key just before the optimistic write.
C1_RollbackRestoresList ==
    [][\A s \in SendSlots :
         (sends[s].status = "pending" /\ sends'[s].status = "error")
         => OrEmpty(cache'[SendKey(s)]) = OrEmpty(sends[s].before)]_vars

\* a send has failed on a chat that had messages, and the list is back
C1_Witness ==
    \E s \in SendSlots :
        /\ sends[s].status = "error"
        /\ OrEmpty(sends[s].before) # <<>>
        /\ OrEmpty(cache[SendKey(s)]) = OrEmpty(sends[s].before)

\* C2: invoking a send appends the user message {role: user, content: the
\* text, model: the selected model} at the end of the list cached for the
\* target chat key, the earlier entries unchanged and in order, while the
\* request is still unresolved.
C2_OptimisticAppend ==
    [][\A s \in SendSlots :
         (sends[s].status = "idle" /\ sends'[s].status # "idle")
         => LET key == chatKeys_messages(useParams_chatId(location))
            IN /\ sends'[s].status = "pending"
               /\ cache'[key] =
                    Some(Append(OrEmpty(cache[key]),
                                [role |-> "user", content |-> Text(s),
                                 model |-> Get(selectedLlmModel).model,
                                 chat_id |-> Undefined, uuid |-> Undefined]))]_vars

\* a pending send whose user message follows earlier entries of the list
C2_Witness ==
    \E s \in SendSlots :
        /\ sends[s].status = "pending"
        /\ Len(OrEmpty(sends[s].before)) >= 2
        /\ Len(OrEmpty(cache[SendKey(s)])) = Len(OrEmpty(sends[s].before)) + 1
        /\ OrEmpty(cache[SendKey(s)])[Len(OrEmpty(sends[s].before)) + 1].content = Text(s)

\* C3: when a send succeeds, the returned assistant message is appended at
\* the end of the list cached under the chat id of the response; a send made
\* with no chat id leaves the view at /chat/<chat_id>, which renders the reply.
C3_SuccessAppendsAndNavigates ==
    [][\A s \in SendSlots :
         (sends[s].status = "pending" /\ sends'[s].status = "success")
         => LET data == Get(sends'[s].response)
                key == chatKeys_messages(data.chat_id)
                shown == Chat_messages(cache', location')
            IN /\ data.role = "assistant"
               /\ cache'[key] = Some(Append(OrEmpty(cache[key]), data))
               /\ sends[s].chatId = Undefined
                    => /\ location' = <<"/chat", data.chat_id>>
                       /\ \E i \in 1..Len(shown) : shown[i] = data]_vars

\* a send from the new-chat view has succeeded into a chat that had messages
C3_Witness ==
    \E s \in SendSlots :
        /\ sends[s].status = "success"
        /\ sends[s].chatId = Undefined
        /\ location = <<"/chat", Get(sends[s].response).chat_id>>
        /\ LET shown == Chat_messages(cache, location)
           IN /\ Len(shown) >= 2
              /\ shown[Len(shown)] = Get(sends[s].response)

\* C4: a send posts to the agent-completions endpoint exactly when the
\* selected model is 'ttmdocs-agents' and to the direct-LLM endpoint
\* otherwise; the payload carries the text, the selected model identifier
\* and the chat id of the view (undefined for a new chat).
C4_EndpointAndPayload ==
    [][\A s \in SendSlots :
         (sends[s].status = "idle" /\ sends'[s].status = "pending")
         => LET request == sends'[s].request
                model == Get(selectedLlmModel).model
            IN /\ request.url = IF model = "ttmdocs-agents"
                                THEN "/v1/chat/agent/completions"
                                ELSE "/v1/chat/completions"
               /\ request.payload.message = Text(s)
               /\ request.payload.model = model
               /\ request.payload.chat_id = useParams_chatId(location)]_vars

\* a send to the direct-LLM endpoint from the view of an existing chat
C4_Witness ==
    \E s \in SendSlots :
        /\ sends[s].status = "pending"
        /\ sends[s].request.url = "/v1/chat/completions"
        /\ sends[s].request.payload.model # "ttmdocs-agents"
        /\ sends[s].request.payload.chat_id = "123"

---------------------------------------------------------------------------
(* File ingestion flow: uploadFiles (api/knowledge-bases/requests),         *)
(* uploadGoogleFile and uploadBoxFile (api/external-files/requests).        *)
(* upload.pc is where the async function stands: "phase1" while the upload  *)
(* request is out, "phase2" inside the loop over uploadedFiles, "resolved"  *)
(* or "rejected" once its promise has settled.  upload.fetches logs the     *)
(* outcome of each content request, in order.                               *)

Sources == {"local", "google", "box"}
KnowledgeBaseUuids == {Undefined, "kb1"}
EmptyContent == "{}"                          \* encoded_content: {}
ContentOf(uuid) == "content of " \o uuid
\* the encoded_content of a fetched file: absent, empty, or the file's pages
FetchedContents(uuid) == {Undefined, EmptyContent, ContentOf(uuid)}

\* the record the upload endpoint returns for the i-th file
UploadedFile(i) ==
    [uuid |-> "f" \o ToString(i), filename |-> "doc" \o ToString(i),
     encoded_content |-> Undefined]

\* an upload endpoint's answer: an array of records, or (drive, box) one record
UploadResponses ==
    {[isArray |-> TRUE, data |-> [i \in 1..n |-> UploadedFile(i)]] : n \in 0..MaxFiles}
        \cup {[isArray |-> FALSE, data |-> <<UploadedFile(1)>>]}

\* Array.isArray(uploadResponse.data) ? uploadResponse.data : [uploadResponse.data]
AsArray(response) == IF response.isArray THEN response.data ELSE <<response.data[1]>>

\* the body of a successful content request for `file`
FileResponse(file, content) == [file EXCEPT !.encoded_content = content]

\* a failed content request dropping the file from the result
uploadFiles_catch_drop(filesWithContent, file) == filesWithContent

\* uploadFiles: the try and the catch of its loop body
uploadFiles_try(filesWithContent, fileWithContent) ==
    Append(filesWithContent, fileWithContent)
uploadFiles_catch(filesWithContent, file) ==
    Append(filesWithContent, [file EXCEPT !.encoded_content = EmptyContent])

\* uploadGoogleFile / uploadBoxFile: the try and the catch of their loop bodies
uploadExternalFile_try(filesWithContent, data) ==
    Append(filesWithContent,
           [data EXCEPT !.encoded_content =
                IF Truthy(data.encoded_content) THEN data.encoded_content
                ELSE EmptyContent])
uploadExternalFile_catch(filesWithContent, file) ==
    Append(filesWithContent, [file EXCEPT !.encoded_content = EmptyContent])

\* every upload going on to fetch contents
HasPhaseTwo_always(source, knowledgeBaseUuid) == TRUE

\* whether the function goes on to fetch contents after the upload request
HasPhaseTwo(source, knowledgeBaseUuid) ==
    source # "local" \/ Truthy(knowledgeBaseUuid)

\* the catch of the loop body escalating: the function rejects
uploadFiles_loop_rethrow(fetched, total) == "rejected"

\* where the function stands after the catch of the loop body ran for a file:
\* the loop goes on to the next file, or the function returns after the last
uploadFiles_loop(fetched, total) == IF fetched = total THEN "resolved" ELSE "phase2"

OtherUnchanged == UNCHANGED <<chatVars, appVars, oauthVars, sourceVars, queryVars>>

\* the mutation function is called and posts to the source's upload endpoint
UploadStart(source, knowledgeBaseUuid) ==
    /\ upload.pc = "idle"
    /\ upload' = [IdleUpload EXCEPT !.pc = "phase1", !.source = source,
                                    !.knowledgeBaseUuid = knowledgeBaseUuid]
    /\ OtherUnchanged

\* the upload request fails: the function rejects
UploadRequestFails ==
    /\ upload.pc = "phase1"
    /\ upload' = [upload EXCEPT !.pc = "rejected"]
    /\ OtherUnchanged

\* the upload request succeeds; a local upload with no knowledge base returns
\* the response as it is, every other upload enters the loop
UploadRequestSucceeds(response) ==
    /\ upload.pc = "phase1"
    /\ upload.source = "local" => response.isArray
    /\ LET uploadedFiles == IF upload.source = "local" THEN response.data
                            ELSE AsArray(response)
       IN upload' =
            IF ~HasPhaseTwo(upload.source, upload.knowledgeBaseUuid)
            THEN [upload EXCEPT !.pc = "resolved", !.uploadedFiles = uploadedFiles,
                                !.filesWithContent = uploadedFiles]
            ELSE [upload EXCEPT !.pc = IF Len(uploadedFiles) = 0 THEN "resolved"
                                       ELSE "phase2",
                                !.uploadedFiles = uploadedFiles]
    /\ OtherUnchanged

\* the content request of the next file succeeds
ContentFetched(content) ==
    /\ upload.pc = "phase2"
    /\ LET file == upload.uploadedFiles[Len(upload.fetches) + 1]
           data == FileResponse(file, content)
           next == IF upload.source = "local"
                   THEN uploadFiles_try(upload.filesWithContent, data)
                   ELSE uploadExternalFile_try(upload.filesWithContent, data)
       IN /\ content \in FetchedContents(file.uuid)
          /\ upload' = [upload EXCEPT
                !.filesWithContent = next,
                !.fetches = Append(@, [ok |-> TRUE, content |-> content]),
                !.pc = IF Len(upload.fetches) + 1 = Len(upload.uploadedFiles)
                       THEN "resolved" ELSE "phase2"]
    /\ OtherUnchanged

\* the content request of the next file fails (or is aborted)
ContentFetchFails ==
    /\ upload.pc = "phase2"
    /\ LET file == upload.uploadedFiles[Len(upload.fetches) + 1]
           next == IF upload.source = "local"
                   THEN uploadFiles_catch(upload.filesWithContent, file)
                   ELSE uploadExternalFile_catch(upload.filesWithContent, file)
       IN upload' = [upload EXCEPT
                !.filesWithContent = next,
                !.fetches = Append(@, [ok |-> FALSE, content |-> Undefined]),
                !.pc = uploadFiles_loop(Len(upload.fetches) + 1,
                                        Len(upload.uploadedFiles))]
    /\ OtherUnchanged

\* the mutation has settled: its callbacks run and the next upload can be started
UploadSettled ==
    /\ upload.pc \in {"resolved", "rejected"}
    /\ upload' = IdleUpload
    /\ invalidated' =
         IF upload.source = "local"
         THEN useFileUploadMutation_callbacks(invalidated, CachedQueries(queries, cache),
                                              upload.pc = "resolved")
         ELSE useExternalFileUploadMutation_callbacks(invalidated,
                                                      CachedQueries(queries, cache),
                                                      upload.pc = "resolved")
    /\ UNCHANGED <<reads, queries, dialog, mutation>>
    /\ UNCHANGED <<chatVars, appVars, oauthVars, sourceVars>>

NextUpload ==
    \/ \E source \in Sources, kb \in KnowledgeBaseUuids : UploadStart(source, kb)
    \/ UploadRequestFails
    \/ \E response \in UploadResponses : UploadRequestSucceeds(response)
    \/ \E i \in 1..MaxFiles : \E content \in FetchedContents(UploadedFile(i).uuid) :
            ContentFetched(content)
    \/ ContentFetchFails
    \/ UploadSettled

SpecUpload == Init /\ [][NextUpload]_vars

\* C5: an upload that fetches contents (a local upload scoped to a knowledge
\* base, a Google Drive or a Box upload) resolves with exactly one record per
\* phase-one record, in order: the record of a file whose content request
\* failed has an empty content payload, every other record carries the
\* content its own request returned (an absent one reads as empty).
C5_PartialFailureTolerated ==
    (upload.pc = "resolved" /\ HasPhaseTwo(upload.source, upload.knowledgeBaseUuid))
    => /\ Len(upload.filesWithContent) = Len(upload.uploadedFiles)
       /\ Len(upload.fetches) = Len(upload.uploadedFiles)
       /\ \A k \in 1..Len(upload.uploadedFiles) :
            /\ upload.filesWithContent[k].uuid = upload.uploadedFiles[k].uuid
            /\ ~upload.fetches[k].ok
                 => upload.filesWithContent[k].encoded_content = "{}"
            /\ upload.fetches[k].ok
                 => (IF upload.filesWithContent[k].encoded_content = Undefined
                     THEN "{}" ELSE upload.filesWithContent[k].encoded_content)
                    = (IF upload.fetches[k].content = Undefined
                       THEN "{}" ELSE upload.fetches[k].content)

\* a knowledge-base upload of two files resolved with the first content
\* request failed and the second answered with content
C5_Witness ==
    /\ upload.pc = "resolved"
    /\ upload.source = "local"
    /\ upload.knowledgeBaseUuid = "kb1"
    /\ Len(upload.uploadedFiles) = 2
    /\ Len(upload.filesWithContent) = 2
    /\ ~upload.fetches[1].ok
    /\ upload.fetches[2].ok
    /\ upload.filesWithContent[1].encoded_content = "{}"
    /\ upload.filesWithContent[2].encoded_content = ContentOf("f2")

---------------------------------------------------------------------------
(* Application state: AppStateProvider over the reducer, the storage it     *)
(* mirrors the selections to, and App's catalog effect.  The application    *)
(* starts with whatever an earlier session left in storage.                 *)

StoredItems(key) ==
    IF key = STORAGE_KEYS.SELECTED_LLM_MODEL
    THEN {None} \cup {Some(JSONstringify(Some(m))) : m \in {AGENT_MODEL_LLM, GEMINI_LLM}}
    ELSE {None, Some(JSONstringify(None))}
            \cup {Some(JSONstringify(Some(b))) : b \in KnowledgeBases}

InitStored ==
    /\ storage \in {f \in [StorageKeySet -> UNION {StoredItems(k) : k \in StorageKeySet}] :
                        \A k \in StorageKeySet : f[k] \in StoredItems(k)}
    /\ selectedLlmModel = createInitialState(storage).selectedLlmModel
    /\ selectedKnowledgeBase = createInitialState(storage).selectedKnowledgeBase
    /\ availableLlmModels = createInitialState(storage).availableLlmModels
    /\ catalogQuery = None
    /\ InitChat
    /\ upload = IdleUpload
    /\ oauth = IdleOAuth
    /\ currentUser = None
    /\ connected = <<>>
    /\ InitQueries

\* the catalog request, or a refetch of it, resolves with any answer
AppCatalogFetched ==
    /\ \E response \in CatalogResponses : CatalogFetched(response)
    /\ UNCHANGED <<chatVars, uploadVars, oauthVars, sourceVars, queryVars>>

\* the page is reloaded: the provider is built anew from storage
AppReload ==
    /\ selectedLlmModel' = createInitialState(storage).selectedLlmModel
    /\ selectedKnowledgeBase' = createInitialState(storage).selectedKnowledgeBase
    /\ availableLlmModels' = createInitialState(storage).availableLlmModels
    /\ catalogQuery' = None
    /\ UNCHANGED storage
    /\ UNCHANGED <<chatVars, uploadVars, oauthVars, sourceVars, queryVars>>

NextApp ==
    \/ AppCatalogFetched
    \/ HeaderSelectModel
    \/ PromptSelectKnowledgeBase
    \/ AppReload

SpecApp == InitStored /\ [][NextApp]_vars

\* C6: the synthetic agent entry appears exactly once, at index 0, in the
\* displayed model catalog, whatever the catalog endpoint answered and
\* however often the catalog was refetched.
C6_AgentEntryOnceAndFirst ==
    IsSome(availableLlmModels)
    => /\ AppHeader_items[1].model = "ttmdocs-agents"
       /\ Cardinality({i \in 1..Len(AppHeader_items) :
                          AppHeader_items[i].model = "ttmdocs-agents"}) = 1

\* C10: after every SET_SELECTED_LLM_MODEL or SET_SELECTED_KNOWLEDGE_BASE the
\* storage key of the selection holds the JSON text of the new in-memory
\* value, the last write winning; SET_AVAILABLE_LLM_MODELS writes nothing.
C10_SelectionsMirrored ==
    [][/\ selectedLlmModel' # selectedLlmModel
            => storage'[STORAGE_KEYS.SELECTED_LLM_MODEL]
                 = Some(JSONstringify(selectedLlmModel'))
       /\ selectedKnowledgeBase' # selectedKnowledgeBase
            => storage'[STORAGE_KEYS.SELECTED_KNOWLEDGE_BASE]
                 = Some(JSONstringify(selectedKnowledgeBase'))
       /\ (availableLlmModels' # availableLlmModels
           /\ selectedLlmModel' = selectedLlmModel
           /\ selectedKnowledgeBase' = selectedKnowledgeBase)
            => storage' = storage]_vars

\* a knowledge base was selected and then cleared, a model picked after it:
\* storage holds null and the JSON text of the model
C10_Witness ==
    /\ IsSome(availableLlmModels)
    /\ selectedLlmModel = Some(GEMINI_LLM)
    /\ selectedKnowledgeBase = None
    /\ storage["SELECTED_KNOWLEDGE_BASE"] = Some(<<"null">>)
    /\ storage["SELECTED_LLM_MODEL"] =
         Some(<<"{", "name", "Google Gemini 1.5 Flash",
                "model", "vertex_ai/gemini-1.5-flash-002",
                "llmId", "google-gemini-1.5-pro",
                "isActive", "true", "isDeprecated", "false", "}">>)

---------------------------------------------------------------------------
(* OAuth connection flow.  A URL is a sequence of tokens: the delimiters    *)
(* "?", "&", "=", the escapes "%26", "%3D", "+", and runs of other          *)
(* characters.  oauth.visited is the query string the provider redirected   *)
(* to the callback route with, oauth.href the router location afterwards,   *)
(* oauth.request the query string handed to the verification call (None:    *)
(* no call), oauth.status the status of that query, oauth.oauthError the    *)
(* message the sources settings view shows, oauth.connectingId the provider *)
(* whose Connect button was pressed and oauth.provider the provider the     *)
(* browser was sent to.                                                     *)

ProviderIds == {"google", "box"}

PATHS_OAUTH_CB == <<"/oauth/callback">>
PATHS_SETTINGS_SOURCES == <<"/settings/sources">>

RECURSIVE IndexOf(_, _, _)
\* seq.indexOf(tok) from position i on, 0 when there is none
IndexOf(seq, tok, i) ==
    IF i > Len(seq) THEN 0
    ELSE IF seq[i] = tok THEN i
    ELSE IndexOf(seq, tok, i + 1)

RECURSIVE Split(_, _)
\* seq.split(sep)
Split(seq, sep) ==
    LET i == IndexOf(seq, sep, 1)
    IN IF i = 0 THEN <<seq>>
       ELSE <<SubSeq(seq, 1, i - 1)>> \o Split(SubSeq(seq, i + 1, Len(seq)), sep)

RECURSIVE Join(_, _)
Join(segments, sep) ==
    IF Len(segments) = 0 THEN <<>>
    ELSE IF Len(segments) = 1 THEN segments[1]
    ELSE segments[1] \o <<sep>> \o Join(Tail(segments), sep)

\* percent-decoding and encoding of the application/x-www-form-urlencoded format
DecodeToken(tok) ==
    CASE tok = "%26" -> "&" [] tok = "%3D" -> "=" [] tok = "%3F" -> "?"
      [] tok = "+" -> " " [] OTHER -> tok
EncodeToken(tok) ==
    CASE tok = "&" -> "%26" [] tok = "=" -> "%3D" [] tok = "?" -> "%3F"
      [] tok = " " -> "+" [] OTHER -> tok
Decode(seq) == [i \in 1..Len(seq) |-> DecodeToken(seq[i])]
Encode(seq) == [i \in 1..Len(seq) |-> EncodeToken(seq[i])]

\* new URLSearchParams(search): the list of decoded name/value pairs
URLSearchParams(search) ==
    LET query == IF Len(search) > 0 /\ search[1] = "?" THEN Tail(search) ELSE search
        pairs == SelectSeq(Split(query, "&"), LAMBDA seg : Len(seg) > 0)
        Pair(seg) ==
            LET i == IndexOf(seg, "=", 1)
            IN IF i = 0 THEN [name |-> Decode(seg), value |-> <<>>]
               ELSE [name |-> Decode(SubSeq(seg, 1, i - 1)),
                     value |-> Decode(SubSeq(seg, i + 1, Len(seg)))]
    IN [i \in 1..Len(pairs) |-> Pair(pairs[i])]

\* params.get(name): the first value of that name, or null
URLSearchParams_get(params, name) ==
    LET hits == SelectSeq(params, LAMBDA pair : pair.name = <<name>>)
    IN IF Len(hits) = 0 THEN None ELSE Some(hits[1].value)

\* params.delete(name)
URLSearchParams_delete(params, name) ==
    SelectSeq(params, LAMBDA pair : pair.name # <<name>>)

\* params.toString()
URLSearchParams_toString(params) ==
    Join([i \in 1..Len(params) |->
            Encode(params[i].name) \o <<"=">> \o Encode(params[i].value)], "&")

\* a value of params.get as a condition: null and '' are falsy
TruthyParam(value) == IsSome(value) /\ Get(value) # <<>>

\* react-router's reading of the string handed to navigate
parsePath(to) ==
    LET i == IndexOf(to, "?", 1)
    IN IF i = 0 THEN [pathname |-> to, search |-> <<>>]
       ELSE [pathname |-> SubSeq(to, 1, i - 1), search |-> SubSeq(to, i, Len(to))]

\* react-router's reading of the object { pathname, search } handed to navigate
resolveTo(pathname, search) ==
    [pathname |-> pathname,
     search |-> IF search = <<>> \/ search = <<"?">> THEN <<>>
                ELSE IF search[1] = "?" THEN search ELSE <<"?">> \o search]

\* const buildErrorUrl = e => `${PATHS.SETTINGS.SOURCES}?error=${e}`
buildErrorUrl(e) == PATHS_SETTINGS_SOURCES \o <<"?", "error", "=">> \o e

\* the second argument of useOauthCallback
OAuthCallback_enabled(state, providerError) ==
    TruthyParam(state) /\ ~TruthyParam(providerError)

\* useOauthCallback(search, enabled): the query string it submits, if any
useOauthCallback(search, enabled) == IF enabled THEN Some(search) ELSE None

\* the reconciliation effect forgetting the error code
OAuthCallback_reconcile_silent(href, isSuccess, isError) ==
    IF isSuccess \/ isError THEN parsePath(PATHS_SETTINGS_SOURCES) ELSE href

\* the reconciliation effect: where the router stands after it
OAuthCallback_reconcile(href, isSuccess, isError) ==
    LET afterSuccess == IF isSuccess THEN parsePath(PATHS_SETTINGS_SOURCES) ELSE href
    IN IF isError THEN parsePath(buildErrorUrl(<<"oauth_failed">>)) ELSE afterSuccess

\* the query strings a provider redirects back with
ErrorValues == {None, Some(<<>>), Some(<<"access_denied">>), Some(<<"a", "%26", "b">>)}
StateValues == {None, Some(<<>>), Some(<<"xyz">>)}
CodeValues == {None, Some(<<"abc">>)}
CallbackQuery(error, state, code) ==
    LET Param(name, value) == IF IsSome(value) THEN <<<<name, "=">> \o Get(value)>> ELSE <<>>
        present == Param("error", error) \o Param("state", state) \o Param("code", code)
    IN IF Len(present) = 0 THEN <<>> ELSE <<"?">> \o Join(present, "&")
CallbackQueries ==
    {CallbackQuery(e, st, c) : e \in ErrorValues, st \in StateValues, c \in CodeValues}

OAuthOthersUnchanged == UNCHANGED <<chatVars, appVars, uploadVars, sourceVars, queryVars>>

\* Connect is pressed for a provider: the authorize URL is requested
Connect(providerId) ==
    /\ oauth.pc = "idle"
    /\ oauth' = [oauth EXCEPT !.pc = "authorizing", !.connectingId = providerId]
    /\ OAuthOthersUnchanged

\* the authorize call fails: onError clears connectingId
AuthorizeFails ==
    /\ oauth.pc = "authorizing"
    /\ oauth' = [oauth EXCEPT !.pc = "idle", !.connectingId = Null]
    /\ OAuthOthersUnchanged

\* the authorize call succeeds: the browser leaves for the provider
AuthorizeSucceeds ==
    /\ oauth.pc = "authorizing"
    /\ oauth' = [IdleOAuth EXCEPT !.pc = "redirected", !.provider = oauth.connectingId]
    /\ OAuthOthersUnchanged

\* the provider redirects the browser to the callback route: OAuthCallback
\* renders, its first effect runs and the verification query starts if enabled
OAuthVisit(search) ==
    /\ oauth.pc \in {"idle", "redirected"}
    /\ LET params == URLSearchParams(search)
           providerError == URLSearchParams_get(params, "error")
           state == URLSearchParams_get(params, "state")
           request == useOauthCallback(search, OAuthCallback_enabled(state, providerError))
       IN oauth' =
            [pc |-> IF TruthyParam(providerError) THEN "sources"
                    ELSE IF IsSome(request) THEN "verifying" ELSE "waiting",
             connectingId |-> Null,
             provider |-> oauth.provider,
             visited |-> search,
             href |-> IF TruthyParam(providerError)
                      THEN parsePath(buildErrorUrl(Get(providerError)))
                      ELSE [pathname |-> PATHS_OAUTH_CB, search |-> search],
             request |-> request,
             status |-> IF IsSome(request) THEN "pending" ELSE "idle",
             oauthError |-> None]
    /\ OAuthOthersUnchanged

\* the verification call settles and the reconciliation effect runs
VerificationSettles(status) ==
    /\ oauth.pc = "verifying"
    /\ oauth' = [oauth EXCEPT
            !.pc = "sources",
            !.status = status,
            !.href = OAuthCallback_reconcile(oauth.href, status = "success",
                                             status = "error")]
    /\ OAuthOthersUnchanged

\* SettingsSources renders at the location navigated to and its effect runs
SettingsSources_effect ==
    /\ oauth.pc = "sources"
    /\ LET params == URLSearchParams(oauth.href.search)
           err == URLSearchParams_get(params, "error")
       IN oauth' =
            IF TruthyParam(err)
            THEN [oauth EXCEPT
                    !.pc = "shown",
                    !.oauthError = err,
                    !.href = resolveTo(oauth.href.pathname,
                                URLSearchParams_toString(
                                    URLSearchParams_delete(params, "error")))]
            ELSE [oauth EXCEPT !.pc = "shown"]
    /\ OAuthOthersUnchanged

\* the user leaves: the callback view that neither navigated nor verified, or
\* the sources settings view for another attempt
OAuthLeave ==
    /\ oauth.pc \in {"waiting", "shown"}
    /\ oauth' = IdleOAuth
    /\ OAuthOthersUnchanged

NextOAuth ==
    \/ \E providerId \in ProviderIds : Connect(providerId)
    \/ AuthorizeFails
    \/ AuthorizeSucceeds
    \/ \E search \in CallbackQueries : OAuthVisit(search)
    \/ \E status \in {"success", "error"} : VerificationSettles(status)
    \/ SettingsSources_effect
    \/ OAuthLeave

SpecOAuth == Init /\ [][NextOAuth]_vars

\* the parameters of the visit and of the location navigated to
VisitedParam(name) == URLSearchParams_get(URLSearchParams(oauth.visited), name)
HrefParam(name) == URLSearchParams_get(URLSearchParams(oauth.href.search), name)

\* C7: a visit of the callback view with an error query parameter, with or
\* without a state parameter, navigates to the sources settings view with
\* that same error value as its error query parameter, and makes no backend
\* verification call.
C7_ErrorRelayedWithoutCall ==
    (oauth.pc \in {"sources", "verifying", "waiting"} /\ IsSome(VisitedParam("error")))
    => /\ oauth.request = None
       /\ oauth.pc = "sources"
       /\ oauth.href.pathname = PATHS_SETTINGS_SOURCES
       /\ HrefParam("error") = VisitedParam("error")

---------------------------------------------------------------------------
(* Connected sources.  A provider type is a sequence of characters, or None *)
(* when the identity has none.  currentUser is the data of useCurrentUser   *)
(* (None while there is none), connected the connectedSources of the last   *)
(* render of useConnectedSources.                                           *)

\* the provider types an identity record can carry
ProviderTypes ==
    {None,
     Some(<<"g", "o", "o", "g", "l", "e", "_", "o", "a", "u", "t", "h">>),
     Some(<<"G", "o", "o", "g", "l", "e">>),
     Some(<<"G", "O", "O", "G", "L", "E">>),
     Some(<<"b", "o", "x">>),
     Some(<<"B", "o", "x", "_", "o", "a", "u", "t", "h">>),
     Some(<<"d", "r", "o", "p", "b", "o", "x">>),
     Some(<<"d", "a", "t", "a", "r", "o", "b", "o", "t", "_", "u", "s", "e", "r">>),
     Some(<<"g", "o", "o", "g", "_", "l", "e">>),
     Some(<<"b", "o">>)}

Users ==
    {[identities |-> ids] : ids \in SeqsUpTo({[provider_type |-> t] : t \in ProviderTypes},
                                              MaxIdentities)}

\* String.prototype.toLowerCase, character by character
ToLowerCaseChar(c) ==
    CASE c = "A" -> "a" [] c = "B" -> "b" [] c = "C" -> "c" [] c = "D" -> "d" [] c = "E" -> "e" [] c = "G" -> "g" [] c = "L" -> "l" [] c = "O" -> "o" [] c = "X" -> "x" [] c = "R" -> "r" [] c = "T" -> "t" [] c = "U" -> "u"
      [] OTHER -> c
ToLowerCase(str) == [i \in 1..Len(str) |-> ToLowerCaseChar(str[i])]

RECURSIVE IncludesFrom(_, _, _)
\* String.prototype.includes: the search string matched at position i or later
IncludesFrom(str, search, i) ==
    IF i + Len(search) - 1 > Len(str) THEN FALSE
    ELSE IF SubSeq(str, i, i + Len(search) - 1) = search THEN TRUE
    ELSE IncludesFrom(str, search, i + 1)
Includes(str, search) == IncludesFrom(str, search, 1)

\* identity.provider_type?.toLowerCase().includes(search), as a condition
ProviderTypeIncludes(identity, search) ==
    IsSome(identity.provider_type)
        /\ Includes(ToLowerCase(Get(identity.provider_type)), search)

\* useConnectedSources comparing provider types as they are written
useConnectedSources_caseSensitive(user) ==
    IF ~IsSome(user) THEN <<>>
    ELSE LET identities == Get(user).identities
             Has(search) == \E i \in 1..Len(identities) :
                                /\ IsSome(identities[i].provider_type)
                                /\ Includes(Get(identities[i].provider_type), search)
         IN (IF Has(<<"g", "o", "o", "g", "l", "e">>)
             THEN <<[id |-> "google", name |-> "Google Drive", type |-> "google",
                     isConnected |-> TRUE]>>
             ELSE <<>>)
            \o (IF Has(<<"b", "o", "x">>)
                THEN <<[id |-> "box", name |-> "Box", type |-> "box",
                        isConnected |-> TRUE]>>
                ELSE <<>>)

\* useConnectedSources: the connectedSources it returns for the user data
useConnectedSources(user) ==
    IF ~IsSome(user) THEN <<>>
    ELSE LET identities == Get(user).identities
             hasGoogle == \E i \in 1..Len(identities) :
                              ProviderTypeIncludes(identities[i], <<"g", "o", "o", "g", "l", "e">>)
             hasBox == \E i \in 1..Len(identities) :
                              ProviderTypeIncludes(identities[i], <<"b", "o", "x">>)
         IN (IF hasGoogle
             THEN <<[id |-> "google", name |-> "Google Drive", type |-> "google",
                     isConnected |-> TRUE]>>
             ELSE <<>>)
            \o (IF hasBox
                THEN <<[id |-> "box", name |-> "Box", type |-> "box",
                        isConnected |-> TRUE]>>
                ELSE <<>>)

\* the current-user query resolves (or is refetched) and the hook renders
UserFetched(user) ==
    /\ currentUser' = Some(user)
    /\ connected' = useConnectedSources(currentUser')
    /\ UNCHANGED <<chatVars, appVars, uploadVars, oauthVars, queryVars>>

\* the current-user query is reset (sign-out): no user data
UserCleared ==
    /\ IsSome(currentUser)
    /\ currentUser' = None
    /\ connected' = useConnectedSources(currentUser')
    /\ UNCHANGED <<chatVars, appVars, uploadVars, oauthVars, queryVars>>

NextSources ==
    \/ \E user \in Users : UserFetched(user)
    \/ UserCleared

SpecSources == Init /\ [][NextSources]_vars

\* C9: the connected sources hold a google entry (isConnected = true) exactly
\* when some identity's provider type contains "google" in any letter case,
\* a box entry exactly when some identity's provider type contains "box", at
\* most one entry per provider, and none without identities; identities
\* [{provider_type: "google_oauth"}] give exactly one entry, of type google.
C9_ConnectedSourcesDerived ==
    LET identities == IF IsSome(currentUser) THEN Get(currentUser).identities ELSE <<>>
        Contains(word) ==
            \E i \in 1..Len(identities) :
                /\ identities[i].provider_type # None
                /\ LET t == identities[i].provider_type[1]
                   IN \E k \in 0..(Len(t) - Len(word)) :
                        \A j \in 1..Len(word) :
                            ToLowerCaseChar(t[k + j]) = word[j]
        Entries(type) == {n \in 1..Len(connected) : connected[n].type = type}
    IN /\ Cardinality(Entries("google")) = IF Contains(<<"g", "o", "o", "g", "l", "e">>) THEN 1 ELSE 0
       /\ Cardinality(Entries("box")) = IF Contains(<<"b", "o", "x">>) THEN 1 ELSE 0
       /\ \A n \in 1..Len(connected) :
            connected[n].type \in {"google", "box"} /\ connected[n].isConnected
       /\ Len(identities) = 0 => connected = <<>>
       /\ identities = <<[provider_type |-> Some(<<"g", "o", "o", "g", "l", "e", "_", "o", "a", "u", "t", "h">>)]>>
            => (Len(connected) = 1 /\ connected[1].type = "google")

\* the user's identities are a Google identity written with capitals and a
\* Box identity: both entries are there
C9_Witness ==
    /\ currentUser = Some([identities |->
            <<[provider_type |-> Some(<<"G", "o", "o", "g", "l", "e">>)], [provider_type |-> Some(<<"B", "o", "x", "_", "o", "a", "u", "t", "h">>)]>>])
    /\ Len(connected) = 2
    /\ connected[1].type = "google"
    /\ connected[2].type = "box"

---------------------------------------------------------------------------
\* C11: once the catalog has loaded exactly one model is selected:
\* selectedLlmModel is a model descriptor, never null; it is the synthetic
\* agent entry when nothing has been persisted or selected; and after
\* setSelectedLlmModel(M) (the step that writes M to storage) the state and
\* both places that display the selection show exactly M.
C11_ExactlyOneModelSelected ==
    /\ [](IsSome(availableLlmModels)
            => /\ IsSome(selectedLlmModel)
               /\ DOMAIN Get(selectedLlmModel) = DOMAIN AGENT_MODEL_LLM
               /\ storage["SELECTED_LLM_MODEL"] = None
                    => selectedLlmModel = Some(AGENT_MODEL_LLM))
    /\ [][storage'["SELECTED_LLM_MODEL"] # storage["SELECTED_LLM_MODEL"]
            => \E i \in 1..Len(AppHeader_items) :
                 LET M == AppHeader_items[i]
                 IN /\ selectedLlmModel' = Some(M)
                    /\ AppHeader_trigger(selectedLlmModel') = M.name
                    /\ Chat_modelName(selectedLlmModel') = M.name]_vars

\* the catalog has loaded and Gemini, picked from the header in this or an
\* earlier session, is the selection the header shows
C11_Witness ==
    /\ IsSome(availableLlmModels)
    /\ selectedLlmModel = Some(GEMINI_LLM)
    /\ AppHeader_trigger(selectedLlmModel) = "Google Gemini 1.5 Flash"
    /\ storage["SELECTED_KNOWLEDGE_BASE"] = None

---------------------------------------------------------------------------
(* External file listings: useGoogleFiles / useBoxFiles under               *)
(* ConnectedSourcesDialog.  A listing is abbreviated to the provider and    *)
(* the folder the request named.                                            *)

SearchQueries == {"", "report"}

\* getGoogleFiles / getBoxFiles: the listing the request of a folder returns
getGoogleFiles(folderId) ==
    [provider |-> "google", folder |-> IF Truthy(folderId) THEN folderId ELSE "root"]
getBoxFiles(folderId) ==
    [provider |-> "box", folder |-> IF folderId = Undefined THEN "0" ELSE folderId]

\* useGoogleFiles / useBoxFiles: the key of the query and the data it fetches
useGoogleFiles(folderId) ==
    [queryKey |-> externalFilesKeys_googleFolder(folderId),
     data |-> getGoogleFiles(folderId)]
useBoxFiles(folderId) ==
    LET folder == IF folderId = Undefined THEN "0" ELSE folderId
    IN [queryKey |-> externalFilesKeys_boxFolder(folder), data |-> getBoxFiles(folder)]

\* the query the dialog renders for a source
Dialog_query(d, source) ==
    IF source = "google" THEN useGoogleFiles(d.selectedGoogleFolder)
    ELSE useBoxFiles(d.selectedBoxFolder)

\* the listing the dialog shows for a source: undefined while it loads
Dialog_files(qs, d, source) == qs[hashKey(Dialog_query(d, source).queryKey)]

ListingsOthersUnchanged ==
    UNCHANGED <<chatVars, appVars, uploadVars, oauthVars, sourceVars>>

\* handleDialogClose: closing resets both searches; the parent gets the flag
handleDialogClose(d, open) ==
    IF ~open
    THEN [d EXCEPT !.googleSearchQuery = "", !.boxSearchQuery = "", !.open = open]
    ELSE [d EXCEPT !.open = open]

\* ChatPromptInput's handleExternalFileSelect: mutateExternalFile is called
\* once; its mutationFn posts the file's id to the source's upload endpoint
handleExternalFileSelect(d, file, source) ==
    [d EXCEPT !.uploads = Append(@, [source |-> source, fileId |-> file.id]),
              !.isUploading = TRUE]

\* handleFileSelect treating every entry that is not a folder as a file
handleFileSelect_anyEntryUploads(d, file, source) ==
    IF file.type = "folder"
    THEN IF source = "google"
         THEN [d EXCEPT !.selectedGoogleFolder = file.id, !.googleSearchQuery = ""]
         ELSE [d EXCEPT !.selectedBoxFolder = file.id, !.boxSearchQuery = ""]
    ELSE handleDialogClose(handleExternalFileSelect(d, file, source), FALSE)

\* handleFileSelect: a folder is entered, a file is handed to onFileSelect and
\* the dialog closed, any other entry is ignored
handleFileSelect(d, file, source) ==
    IF file.type = "folder"
    THEN IF source = "google"
         THEN [d EXCEPT !.selectedGoogleFolder = file.id, !.googleSearchQuery = ""]
         ELSE [d EXCEPT !.selectedBoxFolder = file.id, !.boxSearchQuery = ""]
    ELSE IF file.type = "file"
    THEN handleDialogClose(handleExternalFileSelect(d, file, source), FALSE)
    ELSE d

\* handleFileSelect on a folder: the folder is entered and the search cleared
DialogOpenFolder(source, folderId) ==
    /\ dialog' = IF source = "google"
                 THEN [dialog EXCEPT !.selectedGoogleFolder = folderId,
                                     !.googleSearchQuery = ""]
                 ELSE [dialog EXCEPT !.selectedBoxFolder = folderId,
                                     !.boxSearchQuery = ""]
    /\ UNCHANGED <<reads, queries, invalidated, mutation>>
    /\ ListingsOthersUnchanged

\* the search box of a source is typed into
DialogSearch(source, text) ==
    /\ IsSome(Dialog_files(queries, dialog, source))
    /\ dialog' = IF source = "google" THEN [dialog EXCEPT !.googleSearchQuery = text]
                 ELSE [dialog EXCEPT !.boxSearchQuery = text]
    /\ UNCHANGED <<reads, queries, invalidated, mutation>>
    /\ ListingsOthersUnchanged

\* handleDialogClose(false): both searches are reset
DialogClose ==
    /\ dialog' = handleDialogClose(dialog, FALSE)
    /\ UNCHANGED <<reads, queries, invalidated, mutation>>
    /\ ListingsOthersUnchanged

\* the listing request of the folder a source shows resolves and is cached
ListingFetched(source) ==
    /\ LET query == Dialog_query(dialog, source)
       IN /\ ~IsSome(queries[hashKey(query.queryKey)])
          /\ queries' = [queries EXCEPT ![hashKey(query.queryKey)] = Some(query.data)]
          /\ invalidated' = invalidated \ {hashKey(query.queryKey)}
    /\ UNCHANGED <<reads, dialog, mutation>>
    /\ ListingsOthersUnchanged

NextListings ==
    \/ \E folderId \in FolderIds : DialogOpenFolder("google", folderId)
    \/ \E folderId \in FolderIds : DialogOpenFolder("box", folderId)
    \/ \E source \in {"google", "box"}, text \in SearchQueries : DialogSearch(source, text)
    \/ DialogClose
    \/ \E source \in {"google", "box"} : ListingFetched(source)

SpecListings == Init /\ [][NextListings]_vars

\* C12: the listing of every (provider, folder id) pair, the Google root
\* (undefined) and the Box root ("0") included, is cached under a key of its
\* own, so the listing cached for a pair is the one fetched for that pair and
\* the dialog never shows a folder the listing of another folder or provider.
C12_ListingKeysIsolated ==
    LET Pairs == ({"google"} \X GoogleFolderIds) \cup ({"box"} \X FolderIds)
        Query(pair) == IF pair[1] = "google" THEN useGoogleFiles(pair[2])
                       ELSE useBoxFiles(pair[2])
        Listing(pair) ==
            [provider |-> pair[1],
             folder |-> IF pair = <<"google", Undefined>> THEN "root" ELSE pair[2]]
    IN /\ \A a, b \in Pairs :
            a # b => hashKey(Query(a).queryKey) # hashKey(Query(b).queryKey)
       /\ \A a \in Pairs :
            IsSome(queries[hashKey(Query(a).queryKey)])
                => Get(queries[hashKey(Query(a).queryKey)]) = Listing(a)
       /\ IsSome(Dialog_files(queries, dialog, "google"))
            => Get(Dialog_files(queries, dialog, "google"))
                 = Listing(<<"google", dialog.selectedGoogleFolder>>)
       /\ IsSome(Dialog_files(queries, dialog, "box"))
            => Get(Dialog_files(queries, dialog, "box"))
                 = Listing(<<"box", dialog.selectedBoxFolder>>)

\* the Google root, Google folder "0" and the Box root "0" are all cached,
\* and the dialog shows Google folder "0" next to the Box root
C12_Witness ==
    /\ IsSome(queries[<<"\"external-files\"", "\"google\"", "null">>])
    /\ IsSome(queries[<<"\"external-files\"", "\"google\"", "\"0\"">>])
    /\ IsSome(queries[<<"\"external-files\"", "\"box\"", "\"0\"">>])
    /\ dialog.selectedGoogleFolder = "0"
    /\ dialog.selectedBoxFolder = "0"

---------------------------------------------------------------------------
\* C13: a local upload with no knowledge base targeted issues no content
\* request and resolves with the upload endpoint's response as it came.
C13_LocalFreeUploadSkipsPhaseTwo ==
    (upload.source = "local" /\ ~Truthy(upload.knowledgeBaseUuid))
    => /\ upload.pc # "phase2"
       /\ upload.fetches = <<>>
       /\ upload.pc = "resolved"
            => /\ upload.filesWithContent = upload.uploadedFiles
               /\ \A i \in 1..Len(upload.filesWithContent) :
                    upload.filesWithContent[i] = UploadedFile(i)

\* a local upload of two files with no knowledge base has resolved
C13_Witness ==
    /\ upload.source = "local"
    /\ upload.knowledgeBaseUuid = Undefined
    /\ upload.pc = "resolved"
    /\ Len(upload.filesWithContent) = 2

\* C14: a Google Drive or Box upload with no knowledge base targeted skips
\* phase two as a local upload does: it issues no content request and
\* resolves with the upload endpoint's response as it came.
C14_ExternalFreeUploadSkipsPhaseTwo ==
    (upload.source \in {"google", "box"} /\ ~Truthy(upload.knowledgeBaseUuid))
    => /\ upload.pc # "phase2"
       /\ upload.fetches = <<>>
       /\ upload.pc = "resolved" => upload.filesWithContent = upload.uploadedFiles

---------------------------------------------------------------------------
(* Writes and the cache: the knowledge-base mutations, the chat delete and  *)
(* the uploads against the cached queries.  mutation.kind names the hook,   *)
(* mutation.id the knowledge base or chat written, mutation.title the title *)
(* an update sends.  One write is explored at a time.                       *)

\* the title an update sends
NewTitle == "Docs v2"
WriteKinds == {"createKnowledgeBase", "updateKnowledgeBase", "deleteKnowledgeBase",
               "deleteChat"}

\* what the server answers to the query of a key
QueryData(queryKey) ==
    CASE queryKey = chatKeys_chatList -> [chats |-> <<"123">>]
      [] queryKey = knowledgeBasesKeys_all -> [bases |-> <<"kb1", "kb2">>]
      [] queryKey = knowledgeBasesKeys_allFiles -> [files |-> <<"f1">>]
      [] Len(queryKey) = 2 -> [uuid |-> queryKey[2], title |-> "Docs"]
      [] OTHER -> [files |-> <<"f1">>]

\* the queries the views around the writes keep: the lists, every knowledge
\* base by id, and the file listing of the knowledge base uploads go to
WriteKeys ==
    {chatKeys_chatList, knowledgeBasesKeys_all, knowledgeBasesKeys_allFiles}
        \cup {knowledgeBasesKeys_byId(id) : id \in BaseUuids}
        \cup {knowledgeBasesKeys_files(id) : id \in KnowledgeBaseUuids \ {Undefined}}

\* useUpdateKnowledgeBase's onSuccess without its setQueryData
useUpdateKnowledgeBase_onSuccess_invalidateOnly(qc, updatedBase) ==
    [queries |-> qc.queries,
     invalidated |-> invalidateQueries(qc.invalidated, CachedQueries(qc.queries, qc.cache),
                                       knowledgeBasesKeys_all)]

\* the onSuccess callbacks of the knowledge-base mutations; qc is the query
\* client's [queries, invalidated, cache]
useCreateKnowledgeBase_onSuccess(qc) ==
    [queries |-> qc.queries,
     invalidated |-> invalidateQueries(qc.invalidated, CachedQueries(qc.queries, qc.cache),
                                       knowledgeBasesKeys_all)]
useUpdateKnowledgeBase_onSuccess(qc, updatedBase) ==
    LET marks == invalidateQueries(qc.invalidated, CachedQueries(qc.queries, qc.cache),
                                   knowledgeBasesKeys_all)
    IN [queries |-> setData(qc.queries, knowledgeBasesKeys_byId(updatedBase.uuid),
                            updatedBase),
        invalidated |-> clearMark(marks, knowledgeBasesKeys_byId(updatedBase.uuid))]
useDeleteKnowledgeBase_onSuccess(qc) ==
    [queries |-> qc.queries,
     invalidated |-> invalidateQueries(qc.invalidated, CachedQueries(qc.queries, qc.cache),
                                       knowledgeBasesKeys_all)]

\* the chat delete's callback invalidating every query of the client
useChatsDelete_onSettled_everything(qc, succeeded) ==
    [queries |-> qc.queries,
     invalidated |-> invalidateQueries(qc.invalidated, CachedQueries(qc.queries, qc.cache),
                                       <<>>)]

\* useChatsDelete's onSettled: it runs after a success and after a failure
useChatsDelete_onSettled(qc, succeeded) ==
    [queries |-> qc.queries,
     invalidated |-> invalidateQueries(qc.invalidated, CachedQueries(qc.queries, qc.cache),
                                       chatKeys_chatList)]

QueryClient == [queries |-> queries, invalidated |-> invalidated, cache |-> cache]

WritesOthersUnchanged == UNCHANGED <<appVars, uploadVars, oauthVars, sourceVars>>

\* the query of a key resolves, for the first time or after it was marked
QueryFetched(queryKey) ==
    /\ ~IsSome(queries[hashKey(queryKey)]) \/ hashKey(queryKey) \in invalidated
    /\ queries' = setData(queries, queryKey, QueryData(queryKey))
    /\ invalidated' = clearMark(invalidated, queryKey)
    /\ UNCHANGED <<reads, dialog, mutation, chatVars>>
    /\ WritesOthersUnchanged

\* useChatMessages(chatId) resolves with the server's list
MessagesFetched(chatId) ==
    /\ ~IsSome(cache[chatKeys_messages(chatId)])
    /\ \E list \in ServerMessages(chatId) :
            cache' = setQueryData(cache, chatKeys_messages(chatId), list)
    /\ invalidated' = clearMark(invalidated, chatKeys_messages(chatId))
    /\ UNCHANGED <<sends, location, hasPendingMessageRequest, isPendingMessage, chatMount>>
    /\ UNCHANGED <<reads, queries, dialog, mutation>>
    /\ WritesOthersUnchanged

\* how the promise of the component handler that invoked a write settles:
\* handleSave (create, update) and handleDeleteBase await mutateAsync inside
\* try/catch and log; handleDeleteChat calls mutate, which returns no promise
Handler_settles(kind, failed) ==
    CASE kind \in {"createKnowledgeBase", "updateKnowledgeBase"} -> "fulfilled"
      [] kind = "deleteKnowledgeBase" -> "fulfilled"
      [] OTHER -> "fulfilled"

\* mutate / mutateAsync of one of the write hooks is called
WriteStarts(kind, id) ==
    /\ mutation.pc = "idle"
    /\ upload.pc = "idle"
    /\ mutation' = [kind |-> kind, pc |-> "pending",
                    id |-> IF kind = "createKnowledgeBase" THEN Undefined ELSE id,
                    title |-> IF kind = "updateKnowledgeBase" THEN NewTitle ELSE Undefined,
                    handler |-> IF kind = "deleteChat"
                                THEN Handler_settles(kind, FALSE) ELSE "pending"]
    /\ UNCHANGED <<reads, queries, invalidated, dialog, chatVars>>
    /\ WritesOthersUnchanged

\* the request of the write succeeds and the hook's callbacks run; newUuid is
\* the uuid the server gave a created knowledge base
WriteSucceeds(newUuid) ==
    /\ mutation.pc = "pending"
    /\ LET id == IF mutation.kind = "createKnowledgeBase" THEN newUuid ELSE mutation.id
           after ==
             CASE mutation.kind = "createKnowledgeBase" ->
                    useCreateKnowledgeBase_onSuccess(QueryClient)
               [] mutation.kind = "updateKnowledgeBase" ->
                    useUpdateKnowledgeBase_onSuccess(
                        QueryClient, [uuid |-> id, title |-> mutation.title])
               [] mutation.kind = "deleteKnowledgeBase" ->
                    useDeleteKnowledgeBase_onSuccess(QueryClient)
               [] OTHER -> useChatsDelete_onSettled(QueryClient, TRUE)
       IN /\ queries' = after.queries
          /\ invalidated' = after.invalidated
          /\ mutation' = [mutation EXCEPT !.pc = "success", !.id = id,
                                          !.handler = Handler_settles(mutation.kind, FALSE)]
    /\ UNCHANGED <<reads, dialog, chatVars>>
    /\ WritesOthersUnchanged

\* the request of the write fails and the hook's callbacks run
WriteFails ==
    /\ mutation.pc = "pending"
    /\ LET after == IF mutation.kind = "deleteChat"
                    THEN useChatsDelete_onSettled(QueryClient, FALSE)
                    ELSE [queries |-> queries, invalidated |-> invalidated]
       IN /\ queries' = after.queries
          /\ invalidated' = after.invalidated
    /\ mutation' = [mutation EXCEPT !.pc = "error",
                                    !.handler = Handler_settles(mutation.kind, TRUE)]
    /\ UNCHANGED <<reads, dialog, chatVars>>
    /\ WritesOthersUnchanged

\* the settled write is left behind (mutation.reset, or its view unmounts)
WriteDone ==
    /\ mutation.pc \in {"success", "error"}
    /\ mutation' = IdleMutation
    /\ UNCHANGED <<reads, queries, invalidated, dialog, chatVars>>
    /\ WritesOthersUnchanged

\* an upload of one file, for the callbacks it runs
WritesUploadStart ==
    /\ mutation.pc = "idle"
    /\ \E source \in Sources, kb \in KnowledgeBaseUuids : UploadStart(source, kb)
WritesUploadRequestSucceeds ==
    UploadRequestSucceeds([isArray |-> TRUE, data |-> <<UploadedFile(1)>>])
WritesContentFetched == ContentFetched(ContentOf(UploadedFile(1).uuid))

NextWrites ==
    \/ \E queryKey \in WriteKeys : QueryFetched(queryKey)
    \/ \E chatId \in ChatIds : MessagesFetched(chatId)
    \/ \E kind \in WriteKinds, id \in BaseUuids :
            WriteStarts(kind, IF kind = "deleteChat" THEN "123" ELSE id)
    \/ \E newUuid \in BaseUuids : WriteSucceeds(newUuid)
    \/ WriteFails
    \/ WriteDone
    \/ WritesUploadStart
    \/ UploadRequestFails
    \/ WritesUploadRequestSucceeds
    \/ WritesContentFetched
    \/ UploadSettled

SpecWrites == Init /\ [][NextWrites]_vars

\* C15: after a successful upload (local, Google Drive or Box) the
\* knowledge-base list is marked stale, and so is the file listing the
\* upload is relevant to: the listing of the targeted knowledge base, or the
\* all-files listing when no knowledge base is targeted.
C15_UploadInvalidatesListings ==
    [][(upload.pc = "resolved" /\ upload'.pc = "idle")
        => LET listing == IF Truthy(upload.knowledgeBaseUuid)
                          THEN knowledgeBasesKeys_files(upload.knowledgeBaseUuid)
                          ELSE knowledgeBasesKeys_allFiles
           IN \A queryKey \in {knowledgeBasesKeys_all, listing} :
                IsSome(queries[hashKey(queryKey)])
                    => hashKey(queryKey) \in invalidated']_vars

C17_ChatDeleteInvalidatesListOnly ==
    [][(mutation.kind = "deleteChat" /\ mutation.pc = "pending"
        /\ mutation'.pc \in {"success", "error"})
        => /\ cache' = cache
           /\ queries' = queries
           /\ invalidated' \ invalidated \subseteq {hashKey(chatKeys_chatList)}
           /\ \A chatId \in ChatIdOpt :
                hashKey(chatKeys_messages(chatId)) \notin invalidated'
           /\ IsSome(queries[hashKey(chatKeys_chatList)])
                => hashKey(chatKeys_chatList) \in invalidated']_vars

\* chat 123 was deleted while its messages, the chat list and the
\* knowledge-base list were cached: only the chat list is stale
C17_Witness ==
    /\ mutation.kind = "deleteChat"
    /\ mutation.pc = "success"
    /\ IsSome(cache[<<"chats", "messages", "123">>])
    /\ IsSome(queries[<<"\"allKnowledgeBases\"">>])
    /\ invalidated = {<<"\"chats\"", "\"list\"">>}

\* C18: a failed write (chat delete, knowledge-base mutation, upload) leaves
\* the cache as it was: no entry is changed and none is marked stale.
C18_FailedWriteLeavesCache ==
    [][((mutation.pc = "pending" /\ mutation'.pc = "error")
        \/ (upload.pc = "rejected" /\ upload'.pc = "idle"))
        => /\ cache' = cache
           /\ queries' = queries
           /\ invalidated' = invalidated]_vars

\* C19: no error propagates uncaught out of a mutation handler: the promise
\* of the component handler that invoked a chat send or a knowledge-base
\* create, update or delete (or a chat delete) is never rejected, whether the
\* write succeeds or fails.
C19_NoHandlerRejects ==
    /\ \A s \in SendSlots : sends[s].handler # "rejected"
    /\ mutation.handler # "rejected"

---------------------------------------------------------------------------
(* Reads and their cancellation.  A view that mounts a read hook observes   *)
(* the query of the hook's key; the query client starts the request when    *)
(* the query has no data, and when the last observer leaves (the view       *)
(* unmounts, or its key changes) it cancels the request only if the queryFn *)
(* took the signal it was offered.                                          *)

\* whether the queryFn of a read hook takes `signal` and hands it to its request
queryFn_signal(kind) ==
    CASE kind = "useChatMessages" -> TRUE
      [] kind = "useChats" -> TRUE
      [] kind = "useListKnowledgeBases" -> TRUE
      [] kind = "useGetKnowledgeBase" -> TRUE
      [] kind = "useListFiles" -> TRUE
      [] kind = "useGoogleFiles" -> FALSE
      [] kind = "useBoxFiles" -> FALSE
      [] kind = "useLlmCatalog" -> FALSE

\* the read hooks the views of this flow mount, with the key and the data of each
ReadQueries ==
    {[kind |-> "useGoogleFiles", queryKey |-> useGoogleFiles(f).queryKey,
      data |-> useGoogleFiles(f).data] : f \in {Undefined, "A"}}
        \cup {[kind |-> "useBoxFiles", queryKey |-> useBoxFiles(Undefined).queryKey,
               data |-> useBoxFiles(Undefined).data]}
        \cup {[kind |-> "useListKnowledgeBases", queryKey |-> knowledgeBasesKeys_all,
               data |-> QueryData(knowledgeBasesKeys_all)]}
        \cup {[kind |-> "useChats", queryKey |-> chatKeys_chatList,
               data |-> QueryData(chatKeys_chatList)]}

ReadsOthersUnchanged ==
    UNCHANGED <<chatVars, appVars, uploadVars, oauthVars, sourceVars, dialog, mutation>>

\* a view mounts the hook (or its key becomes this one): the query is observed,
\* and fetched unless it holds data or a request for it is already in flight
ReadMounts(q) ==
    LET h == hashKey(q.queryKey)
    IN /\ ~reads[h].observed
       /\ reads' = [reads EXCEPT ![h] =
             IF reads[h].pc = "idle" /\ ~IsSome(queries[h])
             THEN [observed |-> TRUE, pc |-> "fetching",
                   signal |-> queryFn_signal(q.kind), left |-> FALSE]
             ELSE [reads[h] EXCEPT !.observed = TRUE]]
       /\ UNCHANGED <<queries, invalidated>>
       /\ ReadsOthersUnchanged

\* the view unmounts (or its key changes): the query loses its observer; a
\* request that was given the signal is aborted and the query reverted, one
\* that was not stays in flight
ReadUnmounts(q) ==
    LET h == hashKey(q.queryKey)
    IN /\ reads[h].observed
       /\ reads' = [reads EXCEPT ![h] =
             IF reads[h].pc = "fetching"
             THEN IF reads[h].signal THEN IdleRead
                  ELSE [reads[h] EXCEPT !.observed = FALSE, !.left = TRUE]
             ELSE [reads[h] EXCEPT !.observed = FALSE]]
       /\ UNCHANGED <<queries, invalidated>>
       /\ ReadsOthersUnchanged

\* the request of a query resolves: its data is written under the query's key
ReadResolves(q) ==
    LET h == hashKey(q.queryKey)
    IN /\ reads[h].pc = "fetching"
       /\ queries' = setData(queries, q.queryKey, q.data)
       /\ invalidated' = clearMark(invalidated, q.queryKey)
       /\ reads' = [reads EXCEPT ![h] = [IdleRead EXCEPT !.observed = reads[h].observed]]
       /\ ReadsOthersUnchanged

\* the request of a query fails: nothing is written
ReadFails(q) ==
    LET h == hashKey(q.queryKey)
    IN /\ reads[h].pc = "fetching"
       /\ reads' = [reads EXCEPT ![h] = [IdleRead EXCEPT !.observed = reads[h].observed]]
       /\ UNCHANGED <<queries, invalidated>>
       /\ ReadsOthersUnchanged

NextReads ==
    \/ \E q \in ReadQueries : ReadMounts(q)
    \/ \E q \in ReadQueries : ReadUnmounts(q)
    \/ \E q \in ReadQueries : ReadResolves(q)
    \/ \E q \in ReadQueries : ReadFails(q)

SpecReads == Init /\ [][NextReads]_vars

\* C21: every read hands a cancellation signal to its request, and a read
\* whose view left (unmounted, or moved to another key) before the request
\* resolved never writes its result into the cache.
C21_CancelledReadsDiscarded ==
    /\ [](\A h \in QueryHashes : reads[h].pc = "fetching" => reads[h].signal)
    /\ [][\A h \in QueryHashes :
            (reads[h].pc = "fetching" /\ reads[h].left) => queries'[h] = queries[h]]_vars

---------------------------------------------------------------------------
(* Termination of an upload.  Every content request settles (it is answered,*)
(* fails, or is aborted), which is the fairness the upload flow is given.   *)

ContentRequestSettles ==
    \/ \E i \in 1..MaxFiles : \E content \in FetchedContents(UploadedFile(i).uuid) :
            ContentFetched(content)
    \/ ContentFetchFails

SpecUploadLive == SpecUpload /\ WF_vars(ContentRequestSettles)

\* C22: once phase one of an upload has succeeded the upload never rejects
\* and always resolves, with one record per phase-one file in phase-one
\* order; in phase two every step is the content request of the next file,
\* whatever became of the earlier ones, so a failed request neither skips nor
\* cancels the requests of the remaining files.
C22_PhaseTwoRunsToCompletion ==
    /\ [][upload.pc = "phase2"
            => /\ upload'.pc \in {"phase2", "resolved"}
               /\ Len(upload'.fetches) = Len(upload.fetches) + 1
               /\ upload'.pc = "resolved"
                    <=> Len(upload'.fetches) = Len(upload.uploadedFiles)]_vars
    /\ [](upload.pc = "resolved"
            => /\ Len(upload.filesWithContent) = Len(upload.uploadedFiles)
               /\ \A k \in 1..Len(upload.uploadedFiles) :
                    upload.filesWithContent[k].uuid = upload.uploadedFiles[k].uuid)
    /\ (upload.pc = "phase2") ~> (upload.pc = "resolved")

\* a Google Drive upload of two files resolved although the content request
\* of its first file failed: the second file's content was still fetched
C22_Witness ==
    /\ upload.pc = "resolved"
    /\ upload.source = "google"
    /\ Len(upload.fetches) = 2
    /\ ~upload.fetches[1].ok
    /\ upload.fetches[2].ok
    /\ upload.filesWithContent[2].encoded_content = ContentOf("f2")

---------------------------------------------------------------------------
(* Progress of the OAuth callback view.  A verification call that was made  *)
(* settles (the query is not retried); nothing else is assumed to happen.   *)

VerificationCallSettles == \E status \in {"success", "error"} : VerificationSettles(status)

SpecOAuthLive == SpecOAuth /\ WF_vars(VerificationCallSettles)

\* C23: every visit to the OAuth callback view eventually leaves the callback
\* page: whatever query string it was visited with, the view navigates to the
\* sources settings view, with or without an error parameter.
C23_CallbackViewLeaves ==
    (oauth.href.pathname = PATHS_OAUTH_CB)
        ~> (oauth.pc \in {"sources", "shown"}
            /\ oauth.href.pathname = PATHS_SETTINGS_SOURCES)

---------------------------------------------------------------------------
\* C24: every chat submission leaves the submitting state when its send
\* settles: at that moment the pending flag of the input it was issued from
\* is false and the input is enabled again, and after a failure the chat's
\* cached message list is the one from before the optimistic write.
C24_SettledSendReenablesInput ==
    [][\A s \in SendSlots :
         (sends[s].status = "pending" /\ sends'[s].status \in {"success", "error"}
          /\ sends[s].input = chatMount)
         => /\ ~hasPendingMessageRequest'
            /\ ~isPendingMessage'
            /\ sends'[s].status = "error"
                 => OrEmpty(cache'[SendKey(s)]) = OrEmpty(sends[s].before)]_vars

\* C25: after a successful send from the new-chat view (no chat id) the
\* submitted user message is in the message list cached for the chat id the
\* server returned, immediately before the assistant reply, and the list
\* cached under the absent chat id no longer holds the optimistic message.
C25_NewChatMessageMoves ==
    [][\A s \in SendSlots :
         (sends[s].status = "pending" /\ sends'[s].status = "success"
          /\ sends[s].chatId = Undefined)
         => LET data == Get(sends'[s].response)
                list == OrEmpty(cache'[chatKeys_messages(data.chat_id)])
                slot == OrEmpty(cache'[chatKeys_messages(Undefined)])
                sent == UserMessage(sends[s].variables.message, sends[s].model)
            IN /\ \E i \in 1..(Len(list) - 1) : list[i] = sent /\ list[i + 1] = data
               /\ \A i \in 1..Len(slot) : slot[i] # sent]_vars

\* C26: the rollback of a failed send removes only that send's own
\* optimistic message: every other entry the chat's cached message list holds
\* when the failure arrives (written by a refetch or by another send since
\* the snapshot) is still in the list after the rollback.
C26_RollbackKeepsOtherEntries ==
    [][\A s \in SendSlots :
         (sends[s].status = "pending" /\ sends'[s].status = "error")
         => LET held == OrEmpty(cache[SendKey(s)])
                kept == OrEmpty(cache'[SendKey(s)])
                sent == UserMessage(sends[s].variables.message, sends[s].model)
            IN \A i \in 1..Len(held) :
                 held[i] # sent => \E j \in 1..Len(kept) : kept[j] = held[i]]_vars

---------------------------------------------------------------------------
\* C27: once the catalog has loaded, the selected model is one of the entries
\* of the available model catalog held in application state, also when the
\* selection was restored from storage.
C27_SelectedModelInCatalog ==
    IsSome(availableLlmModels)
    => /\ IsSome(selectedLlmModel)
       /\ \E i \in 1..Len(Get(availableLlmModels)) :
            Get(availableLlmModels)[i] = Get(selectedLlmModel)

\* C28: a reload restores the selection: the initial state built from
\* storage has the selected model and the selected knowledge base that were
\* last set (a knowledge base deselected to null included), and no available
\* catalog until the catalog is fetched again.
C28_ReloadRestoresSelection ==
    /\ [](createInitialState(storage) =
            [selectedLlmModel |-> selectedLlmModel,
             selectedKnowledgeBase |-> selectedKnowledgeBase,
             availableLlmModels |-> None])
    /\ [][(IsSome(catalogQuery) /\ catalogQuery' = None)
            => /\ selectedLlmModel' = selectedLlmModel
               /\ selectedKnowledgeBase' = selectedKnowledgeBase
               /\ availableLlmModels' = None
               /\ storage' = storage]_vars

\* the application was loaded from a storage in which Gemini is the selected
\* model and the knowledge base was deselected to null: both are restored
\* and the catalog is not yet there
C28_Witness ==
    /\ catalogQuery = None
    /\ availableLlmModels = None
    /\ storage["SELECTED_KNOWLEDGE_BASE"] = Some(JSONstringify(None))
    /\ selectedKnowledgeBase = None
    /\ storage["SELECTED_LLM_MODEL"] = Some(JSONstringify(Some(GEMINI_LLM)))
    /\ selectedLlmModel = Some(GEMINI_LLM)

---------------------------------------------------------------------------
(* The provider browser under the chat input: ConnectedSourcesDialog as     *)
(* ChatPromptInput renders it, and the clicks on its entries.               *)

MaxClicks == 3

\* the entries a listing shows: folders, files and web links
ExternalFiles ==
    {[id |-> "A", type |-> "folder"], [id |-> "0", type |-> "folder"],
     [id |-> "f1", type |-> "file"], [id |-> "f2", type |-> "file"],
     [id |-> "w1", type |-> "web_link"]}

\* handleConnectedSourcesClick: the browser is opened
handleConnectedSourcesClick ==
    /\ ~dialog.open
    /\ dialog' = [dialog EXCEPT !.open = TRUE]
    /\ UNCHANGED <<reads, queries, invalidated, mutation>>
    /\ ListingsOthersUnchanged

\* the onClick of an entry's row: dropped while an upload is pending
EntryClicked(file, source) ==
    /\ dialog.open
    /\ ~dialog.isUploading
    /\ dialog.clicks < MaxClicks
    /\ IsSome(Dialog_files(queries, dialog, source))
    /\ dialog' = [handleFileSelect(dialog, file, source) EXCEPT
                    !.clicks = @ + 1,
                    !.selected = [file |-> file, source |-> source]]
    /\ UNCHANGED <<reads, queries, invalidated, mutation>>
    /\ ListingsOthersUnchanged

\* the external upload settles: isPending of the mutation is false again
ExternalUploadSettles ==
    /\ dialog.isUploading
    /\ dialog' = [dialog EXCEPT !.isUploading = FALSE]
    /\ UNCHANGED <<reads, queries, invalidated, mutation>>
    /\ ListingsOthersUnchanged

\* the sheet is dismissed
SheetDismissed ==
    /\ dialog.open
    /\ DialogClose

\* the search box of a source of the open browser is typed into
BrowserSearch(source, text) ==
    /\ dialog.open
    /\ DialogSearch(source, text)

\* the listing a source of the open browser shows is fetched
BrowserListingFetched(source) ==
    /\ dialog.open
    /\ ListingFetched(source)

NextBrowser ==
    \/ handleConnectedSourcesClick
    \/ \E file \in ExternalFiles, source \in {"google", "box"} : EntryClicked(file, source)
    \/ ExternalUploadSettles
    \/ SheetDismissed
    \/ \E source \in {"google", "box"}, text \in SearchQueries : BrowserSearch(source, text)
    \/ \E source \in {"google", "box"} : BrowserListingFetched(source)

SpecBrowser == Init /\ [][NextBrowser]_vars

\* the folder and the search filter the browser holds for a source
Browser_folder(d, source) ==
    IF source = "google" THEN d.selectedGoogleFolder ELSE d.selectedBoxFolder
Browser_filter(d, source) ==
    IF source = "google" THEN d.googleSearchQuery ELSE d.boxSearchQuery

\* C29: in the provider browser, selecting a folder entry sets that provider's
\* current folder to the entry's id and resets that provider's search filter
\* and starts no upload; selecting a file entry starts exactly one upload, for
\* that file, and closes the browser; selecting a web-link entry starts no
\* upload and changes neither a folder, nor a filter, nor the open state.
C29_EntrySelection ==
    [][dialog'.clicks = dialog.clicks + 1 =>
        LET file == dialog'.selected.file
            source == dialog'.selected.source
        IN /\ file.type = "folder" =>
                /\ Browser_folder(dialog', source) = file.id
                /\ Browser_filter(dialog', source) = ""
                /\ dialog'.uploads = dialog.uploads
           /\ file.type = "file" =>
                /\ dialog'.uploads
                     = Append(dialog.uploads, [source |-> source, fileId |-> file.id])
                /\ ~dialog'.open
           /\ file.type = "web_link" =>
                /\ dialog'.uploads = dialog.uploads
                /\ \A src \in {"google", "box"} :
                        /\ Browser_folder(dialog', src) = Browser_folder(dialog, src)
                        /\ Browser_filter(dialog', src) = Browser_filter(dialog, src)
                /\ dialog'.open = dialog.open]_vars

\* a Google folder was entered with a search typed in, a Box file was then
\* selected and the browser, reopened with a new search, got a click on a
\* web link
C29_Witness ==
    /\ dialog.clicks = 3
    /\ dialog.selected.file.type = "web_link"
    /\ dialog.selectedGoogleFolder = "A"
    /\ dialog.uploads = <<[source |-> "box", fileId |-> "f1"]>>
    /\ dialog.googleSearchQuery = "report"
    /\ dialog.open

---------------------------------------------------------------------------
\* C30: a send with a non-empty list of attached file identifiers issues a
\* request that carries them as file_ids, whatever legacy pages context came
\* with it; a send with no file identifiers (absent or empty) issues a request
\* with no file_ids field; in neither case has the payload a pages field or
\* the pages content in a field of it.
C30_FileIdsOverLegacyPages ==
    [][(sends[1].status = "idle" /\ sends'[1].status = "pending")
        => LET variables == sends'[1].variables
               payload == sends'[1].request.payload
               attached == IsSome(variables.fileIds) /\ Get(variables.fileIds) # <<>>
           IN /\ attached => payload.file_ids = variables.fileIds
              /\ ~attached => payload.file_ids = None
              /\ DOMAIN payload = {"message", "model", "chat_id", "knowledge_base_id",
                                   "knowledge_base", "file_ids"}
              /\ payload.message = variables.message
              /\ payload.knowledge_base = None
              /\ payload.knowledge_base_id = variables.knowledgeBaseId]_vars

\* a send with two attached files and a legacy pages context is pending and
\* its request carries the two file identifiers
C30_Witness ==
    /\ sends[1].status = "pending"
    /\ sends[1].variables.fileIds = Some(<<"f1", "f2">>)
    /\ sends[1].variables.pages = Some(<<"page 1 of doc1">>)
    /\ sends[1].request.payload.file_ids = Some(<<"f1", "f2">>)

====
